---- MODULE Spec2Model ----
(***************************************************************************)
(* Model of the isoautomate-node browser clients: the lease allocation     *)
(* over the shared Redis pool (acquire / release) and the request/reply    *)
(* exchange with the workers (_send), for the TypeScript client            *)
(* (src/unnamed/part_000) and the JavaScript client (src/unnamed/part_001).*)
(* Every client action is one broker round trip (or one retried broker     *)
(* operation) together with the synchronous code around it.                *)
(***************************************************************************)
EXTENDS Integers, Sequences, FiniteSets, TLC

(***************************************************************************)
(* Bounds of the model.                                                    *)
(***************************************************************************)
\* uuidv4 task ids are drawn fresh; the model hands out the ids 1..MaxTasks
\* to a fleet of one client instance and 1..MaxFleetTasks to a larger one.
MaxTasks == 4
MaxFleetTasks == 2
\* The replies one enqueue can lose.
MaxLost == 1

\* Client instances: TypeScript clients and JavaScript clients.
TSClients == {"t1", "t2"}
JSClients == {"j1", "j2"}
Clients == TSClients \cup JSClients

\* The registry set ISOAUTOMATE:workers and the browsers of the fleet.
Workers == {"w1", "w2"}
Types == {"chrome"}
Bids == {"b1", "b2"}

\* The pool at start: the free collections of each (worker, type).
InitFree ==
  [w \in Workers |-> [t \in Types |->
     IF w = "w1" /\ t = "chrome" THEN {"b1"}
     ELSE IF w = "w2" /\ t = "chrome" THEN {"b2"}
     ELSE {}]]

TaskIds == 1..(IF MaxTasks > MaxFleetTasks THEN MaxTasks ELSE MaxFleetTasks)

(***************************************************************************)
(* Values.                                                                 *)
(***************************************************************************)
NoProfile == "none"
NoType == "none"

\* this.session = null
NoSession ==
  [browser_id |-> "none", worker |-> "none", browser_type |-> NoType,
   video |-> FALSE, profile_id |-> NoProfile, record |-> FALSE]

\* no request under way
NoEnv ==
  [task_id |-> 0, browser_id |-> "none", worker_name |-> "none",
   action |-> "none", result_key |-> 0, video |-> FALSE, record |-> FALSE,
   profile_id |-> NoProfile, browser_type |-> NoType]

\* What a public method gave back to its caller: a returned value or a
\* thrown error.
Outcome(call, kind, status, error) ==
  [call |-> call, kind |-> kind, status |-> status, error |-> error]

NoOutcome == Outcome("none", "none", "none", "none")

Returned(call, status, error) == Outcome(call, "return", status, error)

Thrown(call, error) == Outcome(call, "throw", "none", error)

\* no method of the JavaScript client running: no locals
NoReply == [task_id |-> 0, status |-> "none", error |-> "none"]

NoFrame ==
  [order |-> <<>>, workerName |-> "none", bid |-> "none",
   browserType |-> NoType, record |-> FALSE, res |-> NoReply]

\* The assertion actions: their methods go through _handle_assertion.
AssertNames == {"assert_text"}

\* no operation given to the retry wrappers alone
NoRetryIn == [run |-> <<>>, maxAttempts |-> 0]

NoRetried ==
  [ok |-> FALSE, error |-> "none", invocations |-> 0, applied |-> 0,
   sleeps |-> 0]

NoRetryOut ==
  [ts |-> NoRetried, js |-> NoRetried, eval |-> NoRetried,
   blpop |-> NoRetried]

VARIABLES
  fleet,       \* the client instances that exist
  lossy,       \* whether the connection can lose the reply of an rpush the
               \* broker has executed
  tracking,    \* which history the run keeps: "claims", "lease", "held",
               \* "scan" or "none"
  workers,     \* the registry set ISOAUTOMATE:workers
  free,        \* free[w][t]: ISOAUTOMATE:<w>:<t>:free
  busy,        \* busy[w][t]: ISOAUTOMATE:<w>:<t>:busy
  tasks,       \* tasks[w]: the list ISOAUTOMATE:<w>:tasks
  results,     \* results[k]: the reply slot ISOAUTOMATE:result:<k>
  nextTask,    \* the next fresh task id
  session,     \* session[c]: this.session
  init_sent,   \* init_sent[c]: this._init_sent (TypeScript client)
  pc,          \* pc[c]: where the running method of c stands
  op,          \* op[c]: the public method c is running
  pending,     \* pending[c]: the envelope of the _send under way
  outcome,     \* outcome[c]: what the last finished method gave back
  frame,       \* frame[c]: the locals of a running method (JavaScript client)
  claims,      \* history: claims[b], the successful acquire() calls that
               \* obtained b since a worker last returned b to free
  replied,     \* history: replied[c], a call of c has received a reply
               \* since acquire() was last called on c
  replied_ok,  \* history: replied_ok[c], a call of c has received a reply
               \* of status "ok"
  lease_sent,  \* history: lease_sent[c], an envelope has been enqueued
               \* since the lease of c was created
  starved,     \* history: starved[c], at an instant of the running
               \* acquire() of c no registered worker had a free browser
  inited,      \* history: inited[c], _init_sent of c has been true
  held,        \* history: held[c], the <<worker, browser id>> of the leases
               \* that successful acquire() calls gave c
  files,       \* files[c]: the artifact files c wrote in ASSERTION_FOLDER
  retry_in,    \* a wrapped operation given to the retry wrappers alone: the
               \* outcomes of its successive invocations, and maxAttempts
  retry_out    \* what each retry wrapper gave for retry_in

pool == <<workers, free, busy>>
broker == <<workers, free, busy, tasks, results>>
local == <<session, init_sent, pc, op, pending, outcome, frame>>
history == <<claims, replied, replied_ok, lease_sent, held, starved, inited>>
harness == <<retry_in, retry_out>>
vars == <<fleet, tracking, lossy, workers, free, busy, tasks, results,
          nextTask, session, init_sent, pc, op, pending, outcome, frame,
          claims, replied, replied_ok, lease_sent, held, starved, inited,
          files, retry_in, retry_out>>

\* The number of task ids the fleet can draw.
Budget == IF Cardinality(fleet) = 1 THEN MaxTasks ELSE MaxFleetTasks

\* The state after the construction of the client instances F.
\* The fleet F of client instances just constructed, on a pool whose free
\* collections are fr, over a connection that loses replies or not.
InitOn(F, H, fr, l) ==
  /\ fleet = F
  /\ tracking = H
  /\ lossy = l
  /\ workers = Workers
  /\ free = fr
  /\ busy = [w \in Workers |-> [t \in Types |-> {}]]
  /\ tasks = [w \in Workers |-> <<>>]
  /\ results = [k \in TaskIds |-> <<>>]
  /\ nextTask = 1
  /\ session = [c \in Clients |-> NoSession]
  /\ init_sent = [c \in Clients |-> FALSE]
  /\ pc = [c \in Clients |-> "idle"]
  /\ op = [c \in Clients |-> "none"]
  /\ pending = [c \in Clients |-> NoEnv]
  /\ outcome = [c \in Clients |-> NoOutcome]
  /\ frame = [c \in Clients |-> NoFrame]
  /\ claims = [b \in Bids |-> 0]
  /\ replied = [c \in Clients |-> FALSE]
  /\ replied_ok = [c \in Clients |-> FALSE]
  /\ lease_sent = [c \in Clients |-> FALSE]
  /\ held = [c \in Clients |-> {}]
  /\ starved = [c \in Clients |-> FALSE]
  /\ inited = [c \in Clients |-> FALSE]
  /\ files = [c \in Clients |-> 0]
  /\ retry_in = NoRetryIn
  /\ retry_out = NoRetryOut

\* The same over a connection that loses no reply.
InitPool(F, H, fr) == InitOn(F, H, fr, FALSE)

InitFleet(F, H) == InitPool(F, H, InitFree)

(***************************************************************************)
(* The retry wrapper of the TypeScript client (src/src/utils.ts).          *)
(* One invocation of a wrapped broker operation ends without error or with *)
(* an error; "applied" tells whether the broker executed the command.      *)
(***************************************************************************)
Ok == [err |-> "none", applied |-> TRUE]
Refused == [err |-> "ECONNREFUSED", applied |-> FALSE]
TimedOut == [err |-> "ETIMEDOUT", applied |-> FALSE]
\* the broker executed the command and the reply did not arrive in time
Lost == [err |-> "ETIMEDOUT", applied |-> TRUE]
RedisMsg == [err |-> "Redis", applied |-> FALSE]
Other == [err |-> "TypeError", applied |-> FALSE]

\* Variant: every error is taken for a connection error.
isRedisError_any(e) == TRUE

\* utils.ts: error.code is ETIMEDOUT or ECONNREFUSED, or the message
\* includes 'Redis'.
isRedisError(e) == e \in {"ETIMEDOUT", "ECONNREFUSED", "Redis"}

\* maxAttempts: number = 3
DefaultMaxAttempts == 3

\* Variant: the wrapper gives up when attempt reaches maxAttempts.
RECURSIVE withRedisRetry_gives_up_early(_, _, _)
withRedisRetry_gives_up_early(run, attempt, maxAttempts) ==
  LET o == Head(run)
      n == IF o.applied THEN 1 ELSE 0
  IN IF o.err = "none"
       THEN [ok |-> TRUE, error |-> "none", invocations |-> 1, applied |-> n,
             sleeps |-> 0]
     ELSE IF isRedisError(o.err) /\ attempt + 1 < maxAttempts
       THEN LET r == withRedisRetry_gives_up_early(Tail(run), attempt + 1,
                                                   maxAttempts)
            IN [r EXCEPT !.invocations = @ + 1, !.applied = @ + n,
                         !.sleeps = @ + 1]
     ELSE [ok |-> FALSE, error |-> o.err, invocations |-> 1, applied |-> n,
           sleeps |-> 0]

\* withRedisRetry(operation, maxAttempts) run against the outcomes `run` of
\* the successive invocations of operation, `attempt` failures counted so
\* far.  Gives whether it returned, the error it threw, the number of
\* invocations made (the value returned is that of the last one), the
\* number of them the broker applied and the number of backoff sleeps.
RECURSIVE withRedisRetry(_, _, _)
withRedisRetry(run, attempt, maxAttempts) ==
  LET o == Head(run)
      n == IF o.applied THEN 1 ELSE 0
  IN IF o.err = "none"
       THEN [ok |-> TRUE, error |-> "none", invocations |-> 1, applied |-> n,
             sleeps |-> 0]
     ELSE IF isRedisError(o.err)
       THEN IF attempt + 1 > maxAttempts
              THEN [ok |-> FALSE, error |-> o.err, invocations |-> 1,
                    applied |-> n, sleeps |-> 0]
              ELSE LET r == withRedisRetry(Tail(run), attempt + 1, maxAttempts)
                   IN [r EXCEPT !.invocations = @ + 1, !.applied = @ + n,
                                !.sleeps = @ + 1]
     ELSE [ok |-> FALSE, error |-> o.err, invocations |-> 1, applied |-> n,
           sleeps |-> 0]

\* The outcomes a broker command of a client can have.
BrokerOutcomes == {Ok, Refused}

\* The runs of invocation outcomes the wrapper can meet: failures it
\* retries, ended by an outcome it does not retry or by the failure that
\* exhausts maxAttempts.
RECURSIVE RunsFrom(_, _)
RunsFrom(attempt, maxAttempts) ==
  {<<o>> : o \in {x \in BrokerOutcomes :
                    ~isRedisError(x.err) \/ attempt + 1 > maxAttempts}}
  \cup
  (IF attempt + 1 > maxAttempts THEN {}
   ELSE {<<o>> \o rest :
           o \in {x \in BrokerOutcomes : isRedisError(x.err)},
           rest \in RunsFrom(attempt + 1, maxAttempts)})

Runs == RunsFrom(0, DefaultMaxAttempts)

\* What withRedisRetry gives for the runs of one wrapped command.
TS_Retried == {withRedisRetry(run, 0, DefaultMaxAttempts) : run \in Runs}

\* The runs in which a failed invocation may have been executed by the
\* broker, its reply lost.
WithLost(run) ==
  {r \in [DOMAIN run -> {Ok, Refused, Lost}] :
     /\ \A i \in DOMAIN run :
          IF run[i] = Refused THEN r[i] \in {Refused, Lost} ELSE r[i] = run[i]
     /\ Cardinality({i \in DOMAIN run : r[i] = Lost}) <= MaxLost}

TS_PushedLossy ==
  {withRedisRetry(r, 0, DefaultMaxAttempts) :
     r \in UNION {WithLost(run) : run \in Runs}}

\* What _r_rpush gives over the connection of the run.
TS_Pushed == IF lossy THEN TS_PushedLossy ELSE TS_Retried

(***************************************************************************)
(* The allocation script of the TypeScript client (part_000, 157-174).     *)
(***************************************************************************)
\* The scan orders the shuffle of the registry can produce.
Perms(S) ==
  {f \in [1..Cardinality(S) -> S] : \A w \in S : \E i \in DOMAIN f : f[i] = w}

\* Variant: the member is read and left in the set (SRANDMEMBER).
SPOP_keeps(set, b) == set

\* redis.call('SPOP', free_key) having drawn b
SPOP(set, b) == set \ {b}

\* Variant: the id is not added.
SADD_drops(set, b) == set

\* redis.call('SADD', busy_key, bid)
SADD(set, b) == set \cup {b}

\* Variant: only the first worker of the scan order is asked.
FirstFree_first_only(order, fr, t) ==
  IF order # <<>> /\ fr[Head(order)][t] # {} THEN Head(order) ELSE "none"

\* for _, worker in ipairs(workers): the first worker whose free collection
\* of the type is not empty, "none" when the loop ends without one.
RECURSIVE FirstFree(_, _, _)
FirstFree(order, fr, t) ==
  IF order = <<>> THEN "none"
  ELSE IF fr[Head(order)][t] # {} THEN Head(order)
  ELSE FirstFree(Tail(order), fr, t)

\* The members SPOP can draw on the worker the scan stops at.
Draws(order, t, fr) ==
  IF FirstFree(order, fr, t) = "none" THEN {"none"}
  ELSE fr[FirstFree(order, fr, t)][t]

\* Variant: the script names a free browser and claims nothing.
luaScript_reads_only(order, t, fr, bu, b) ==
  LET w == FirstFree(order, fr, t)
  IN IF w = "none"
       THEN [worker |-> "none", bid |-> "none", free |-> fr, busy |-> bu]
       ELSE [worker |-> w, bid |-> b, free |-> fr, busy |-> bu]

\* The whole script, run atomically by the broker, for a shuffle `order`
\* and a member b that SPOP draws.
luaScript(order, t, fr, bu, b) ==
  LET w == FirstFree(order, fr, t)
  IN IF w = "none"
       THEN [worker |-> "none", bid |-> "none", free |-> fr, busy |-> bu]
       ELSE [worker |-> w, bid |-> b,
             free |-> [fr EXCEPT ![w][t] = SPOP(@, b)],
             busy |-> [bu EXCEPT ![w][t] = SADD(@, b)]]

(***************************************************************************)
(* Local state of one client instance.                                     *)
(***************************************************************************)
SetLocal(c, s, i, p, o, pe, out) ==
  /\ session' = [session EXCEPT ![c] = s]
  /\ init_sent' = [init_sent EXCEPT ![c] = i]
  /\ pc' = [pc EXCEPT ![c] = p]
  /\ op' = [op EXCEPT ![c] = o]
  /\ pending' = [pending EXCEPT ![c] = pe]
  /\ outcome' = [outcome EXCEPT ![c] = out]
  /\ frame' = [frame EXCEPT ![c] = NoFrame]

\* The public method of c ends: it returns or throws `out`.
Finish(c, s, i, out) ==
  /\ nextTask' = nextTask
  /\ SetLocal(c, s, i, "idle", "none", NoEnv, out)

(***************************************************************************)
(* TypeScript client (part_000).                                           *)
(***************************************************************************)
\* Variant: every call waits on the same reply key.
TS_payload_shared_key(s, action, tid, sent) ==
  [task_id |-> tid, browser_id |-> s.browser_id, worker_name |-> s.worker,
   action |-> action, result_key |-> 1,
   video |-> (~sent /\ s.video),
   record |-> (~sent /\ s.record),
   profile_id |-> IF ~sent /\ s.profile_id # NoProfile
                    THEN s.profile_id ELSE NoProfile,
   browser_type |-> IF ~sent /\ s.profile_id # NoProfile
                      THEN s.browser_type ELSE NoType]

\* Variant: the envelope carries the fields whatever _init_sent is.
TS_payload_always_init(s, action, tid, sent) ==
  [task_id |-> tid, browser_id |-> s.browser_id, worker_name |-> s.worker,
   action |-> action, result_key |-> tid,
   video |-> s.video, record |-> s.record,
   profile_id |-> s.profile_id,
   browser_type |-> IF s.profile_id # NoProfile
                      THEN s.browser_type ELSE NoType]

\* _send, lines 245-265: the envelope, with the deferred initialization
\* fields while _init_sent is false.
TS_payload(s, action, tid, sent) ==
  [task_id |-> tid, browser_id |-> s.browser_id, worker_name |-> s.worker,
   action |-> action, result_key |-> tid,
   video |-> (~sent /\ s.video),
   record |-> (~sent /\ s.record),
   profile_id |-> IF ~sent /\ s.profile_id # NoProfile
                    THEN s.profile_id ELSE NoProfile,
   browser_type |-> IF ~sent /\ s.profile_id # NoProfile
                      THEN s.browser_type ELSE NoType]

\* _send, lines 243-265, entered with a session: a fresh task id, the
\* envelope built, the enqueue next.
TS_EnterSend(c, s, i, o, action) ==
  /\ nextTask <= Budget
  /\ nextTask' = nextTask + 1
  /\ SetLocal(c, s, i, "rpush", o, TS_payload(s, action, nextTask, i),
              NoOutcome)

\* Variant: the error thrown does not carry the message of the reply.
TS_handle_assertion_generic(c, i, r) ==
  IF r.status = "fail"
    THEN Finish(c, session[c], i, Thrown(op[c], "Unknown assertion error"))
    ELSE Finish(c, session[c], i, Returned(op[c], "true", "none"))

\* _handle_assertion, lines 289-306, once _send returned res = r: a reply
\* "fail" is thrown as an Error with res.error or the fallback message,
\* anything else makes the method return true.
TS_handle_assertion(c, i, r) ==
  IF r.status = "fail"
    THEN Finish(c, session[c], i,
                Thrown(op[c], IF r.error # "none" THEN r.error
                              ELSE "Unknown assertion error"))
    ELSE Finish(c, session[c], i, Returned(op[c], "true", "none"))

\* _send returned r (status, error, task_id) to the method that awaits it.
TS_SendReturns(c, i, r) ==
  LET s == session[c]
      a == pending[c].action
  IN CASE op[c] = "acquire" ->
            \* lines 198-201: the result of get_title is dropped
            Finish(c, s, i, Returned("acquire", "ok", "none"))
       [] op[c] = "release" /\ a = "stop_video" ->
            \* lines 218-225
            IF s.record THEN TS_EnterSend(c, s, i, "release", "stop_record")
            ELSE TS_EnterSend(c, s, i, "release", "release_browser")
       [] op[c] = "release" /\ a = "stop_record" ->
            TS_EnterSend(c, s, i, "release", "release_browser")
       [] op[c] = "release" /\ a = "release_browser" ->
            \* lines 226-231: return res; finally this.session = null
            Finish(c, NoSession, i,
                   Returned("release", r.status, r.error))
       [] op[c] \in AssertNames -> TS_handle_assertion(c, i, r)
       [] OTHER ->
            \* an action method: return this._send(...)
            Finish(c, s, i, Returned(op[c], r.status, r.error))

\* Variant: release() without the finally block.
TS_SendThrows_no_finally(c, i, e) ==
  IF op[c] = "release"
    THEN Finish(c, session[c], i, Returned("release", "error", e))
    ELSE Finish(c, session[c], i, Thrown(op[c], e))

\* _send threw e to the method that awaits it.
TS_SendThrows(c, i, e) ==
  IF op[c] = "release"
    THEN \* lines 228-231: catch, return the error; finally session = null
         Finish(c, NoSession, i, Returned("release", "error", e))
    ELSE Finish(c, session[c], i, Thrown(op[c], e))

\* The inputs of acquire(browser_type, video, profile, record) the model
\* draws, as <<video, profile id, record>>: profile resolves to a profile
\* id or to none.
AcquireOptions ==
  {<<FALSE, NoProfile, FALSE>>, <<TRUE, NoProfile, TRUE>>,
   <<FALSE, "p1", FALSE>>}

\* Variant: acquire() returns without the get_title call of line 198.
TS_acquire_no_get_title(c, browser_type, video, profile_id, record) ==
  /\ pc[c] = "idle"
  /\ UNCHANGED <<fleet, tracking, lossy, workers, tasks, results>>
  /\ \/ /\ UNCHANGED <<free, busy>>
        /\ Finish(c, session[c], FALSE, Thrown("acquire", "Redis Lua Error"))
     \/ \E order \in Perms(workers) :
        \E b \in Draws(order, browser_type, free) :
          LET r == luaScript(order, browser_type, free, busy, b)
              s == [browser_id |-> r.bid, worker |-> r.worker,
                    browser_type |-> browser_type, video |-> video,
                    profile_id |-> profile_id, record |-> record]
          IN /\ free' = r.free
             /\ busy' = r.busy
             /\ IF r.worker # "none"
                  THEN Finish(c, s, FALSE, Returned("acquire", "ok", "none"))
                  ELSE Finish(c, session[c], FALSE,
                              Thrown("acquire", "No browsers available"))

\* Variant: acquire() without the reset of line 154.
TS_acquire_keeps_flag(c, browser_type, video, profile_id, record) ==
  /\ pc[c] = "idle"
  /\ UNCHANGED <<fleet, tracking, lossy, workers, tasks, results>>
  /\ \/ \* lines 177-181: eval fails
        /\ UNCHANGED <<free, busy>>
        /\ Finish(c, session[c], init_sent[c],
                  Thrown("acquire", "Redis Lua Error"))
     \/ \E order \in Perms(workers) :
        \E b \in Draws(order, browser_type, free) :
          LET r == luaScript(order, browser_type, free, busy, b)
              s == [browser_id |-> r.bid, worker |-> r.worker,
                    browser_type |-> browser_type, video |-> video,
                    profile_id |-> profile_id, record |-> record]
          IN /\ free' = r.free
             /\ busy' = r.busy
             /\ IF r.worker # "none"
                  THEN IF profile_id # NoProfile \/ video \/ record
                         THEN \* line 198: await this._send("get_title")
                              TS_EnterSend(c, s, init_sent[c], "acquire",
                                           "get_title")
                         ELSE \* line 201
                              Finish(c, s, init_sent[c],
                                     Returned("acquire", "ok", "none"))
                  ELSE \* line 204
                       Finish(c, session[c], init_sent[c],
                              Thrown("acquire", "No browsers available"))

\* acquire(), lines 131-205.  The allocation script is one broker command;
\* eval is not wrapped in the retry, so any failure of it is thrown.
TS_acquire(c, browser_type, video, profile_id, record) ==
  /\ pc[c] = "idle"
  /\ UNCHANGED <<fleet, tracking, lossy, workers, tasks, results>>
  /\ \/ \* lines 177-181: eval fails
        /\ UNCHANGED <<free, busy>>
        /\ Finish(c, session[c], FALSE, Thrown("acquire", "Redis Lua Error"))
     \/ \E order \in Perms(workers) :
        \E b \in Draws(order, browser_type, free) :
          LET r == luaScript(order, browser_type, free, busy, b)
              s == [browser_id |-> r.bid, worker |-> r.worker,
                    browser_type |-> browser_type, video |-> video,
                    profile_id |-> profile_id, record |-> record]
          IN /\ free' = r.free
             /\ busy' = r.busy
             /\ IF r.worker # "none"
                  THEN IF profile_id # NoProfile \/ video \/ record
                         THEN \* line 198: await this._send("get_title")
                              TS_EnterSend(c, s, FALSE, "acquire", "get_title")
                         ELSE \* line 201
                              Finish(c, s, FALSE,
                                     Returned("acquire", "ok", "none"))
                  ELSE \* line 204
                       Finish(c, session[c], FALSE,
                              Thrown("acquire", "No browsers available"))

\* Variant: release() puts the browser back into the free collection
\* itself.
TS_release_moves_back(c) ==
  /\ pc[c] = "idle"
  /\ UNCHANGED <<fleet, tracking, lossy, workers, tasks, results>>
  /\ IF session[c] = NoSession
       THEN /\ UNCHANGED <<free, busy>>
            /\ Finish(c, session[c], init_sent[c],
                      Returned("release", "error", "not_acquired"))
       ELSE /\ free' = [free EXCEPT
                          ![session[c].worker][session[c].browser_type] =
                            @ \cup {session[c].browser_id}]
            /\ busy' = [busy EXCEPT
                          ![session[c].worker][session[c].browser_type] =
                            @ \ {session[c].browser_id}]
            /\ TS_EnterSend(c, session[c], init_sent[c], "release",
                            "release_browser")

\* Variant: release() stops the record before the video.
TS_release_record_first(c) ==
  /\ pc[c] = "idle"
  /\ UNCHANGED <<fleet, tracking, lossy, broker>>
  /\ IF session[c] = NoSession
       THEN Finish(c, session[c], init_sent[c],
                   Returned("release", "error", "not_acquired"))
     ELSE IF session[c].record
       THEN TS_EnterSend(c, session[c], init_sent[c], "release", "stop_record")
     ELSE IF session[c].video
       THEN TS_EnterSend(c, session[c], init_sent[c], "release", "stop_video")
     ELSE TS_EnterSend(c, session[c], init_sent[c], "release",
                       "release_browser")

\* Variant: a lease without capture is dropped without a request.
TS_release_local_only(c) ==
  /\ pc[c] = "idle"
  /\ UNCHANGED <<fleet, tracking, lossy, broker>>
  /\ IF session[c] = NoSession
       THEN Finish(c, session[c], init_sent[c],
                   Returned("release", "error", "not_acquired"))
     ELSE IF session[c].video
       THEN TS_EnterSend(c, session[c], init_sent[c], "release", "stop_video")
     ELSE IF session[c].record
       THEN TS_EnterSend(c, session[c], init_sent[c], "release", "stop_record")
     ELSE Finish(c, NoSession, init_sent[c],
                 Returned("release", "ok", "none"))

\* release(), lines 207-233.
TS_release(c) ==
  /\ pc[c] = "idle"
  /\ UNCHANGED <<fleet, tracking, lossy, broker>>
  /\ IF session[c] = NoSession
       THEN Finish(c, session[c], init_sent[c],
                   Returned("release", "error", "not_acquired"))
     ELSE IF session[c].video
       THEN TS_EnterSend(c, session[c], init_sent[c], "release", "stop_video")
     ELSE IF session[c].record
       THEN TS_EnterSend(c, session[c], init_sent[c], "release", "stop_record")
     ELSE TS_EnterSend(c, session[c], init_sent[c], "release",
                       "release_browser")

\* The action methods (click, open_url, ...): return this._send(action).
ActionNames == {"click"}

\* Variant: _send without the check of this.session.
TS_action_no_check(c, a) ==
  /\ pc[c] = "idle"
  /\ UNCHANGED <<fleet, tracking, lossy, broker>>
  /\ TS_EnterSend(c, session[c], init_sent[c], a, a)

\* An action method called; _send, line 243, throws without a session.
TS_action(c, a) ==
  /\ pc[c] = "idle"
  /\ UNCHANGED <<fleet, tracking, lossy, broker>>
  /\ IF session[c] = NoSession
       THEN Finish(c, session[c], init_sent[c],
                   Thrown(a, "Browser session not acquired"))
       ELSE TS_EnterSend(c, session[c], init_sent[c], a, a)

\* An assertion method (assert_text, ...): _handle_assertion, line 287,
\* awaits this._send(action, args).
TS_assert(c, a) ==
  /\ pc[c] = "idle"
  /\ UNCHANGED <<fleet, tracking, lossy, broker>>
  /\ IF session[c] = NoSession
       THEN Finish(c, session[c], init_sent[c],
                   Thrown(a, "Browser session not acquired"))
       ELSE TS_EnterSend(c, session[c], init_sent[c], a, a)

\* n copies of envelope e
Copies(e, n) == [i \in 1..n |-> e]

\* _send, line 267: await this._r_rpush(queue, payload), the rpush under
\* withRedisRetry (lines 122-124).  Outside the try block: what the
\* wrapper throws leaves _send.
TS_send_rpush(c) ==
  /\ pc[c] = "rpush"
  /\ c \in TSClients
  /\ UNCHANGED <<fleet, tracking, lossy, workers, free, busy, results>>
  /\ \E r \in TS_Pushed :
       LET q == pending[c].worker_name
       IN /\ tasks' = [tasks EXCEPT ![q] = @ \o Copies(pending[c], r.applied)]
          /\ IF r.ok
               THEN /\ pc' = [pc EXCEPT ![c] = "blpop"]
                    /\ UNCHANGED <<nextTask, session, init_sent, op, pending,
                                   outcome, frame>>
               ELSE TS_SendThrows(c, init_sent[c], r.error)

\* Variant: the elapsed timeout is thrown.
TS_send_blpop_timeout_throws(c) ==
  /\ pc[c] = "blpop"
  /\ UNCHANGED <<fleet, tracking, lossy, workers, free, busy, tasks>>
  /\ LET k == pending[c].result_key
     IN \/ /\ results[k] # <<>>
           /\ results' = [results EXCEPT ![k] = Tail(@)]
           /\ TS_SendReturns(c, TRUE, Head(results[k]))
        \/ /\ results[k] = <<>>
           /\ UNCHANGED results
           /\ TS_SendThrows(c, init_sent[c], "Timeout waiting for worker")
        \/ /\ UNCHANGED results
           /\ TS_SendReturns(c, init_sent[c],
                [task_id |-> 0, status |-> "error",
                 error |-> "Redis RPC Error"])

\* _send, lines 269-281: the blocking pop of the reply slot.
TS_send_blpop(c) ==
  /\ pc[c] = "blpop"
  /\ UNCHANGED <<fleet, tracking, lossy, workers, free, busy, tasks>>
  /\ LET k == pending[c].result_key
     IN \/ \* lines 272-275: a reply is in the slot
           /\ results[k] # <<>>
           /\ results' = [results EXCEPT ![k] = Tail(@)]
           /\ TS_SendReturns(c, TRUE, Head(results[k]))
        \/ \* lines 276-277: the timeout elapsed on an empty slot
           /\ results[k] = <<>>
           /\ UNCHANGED results
           /\ TS_SendReturns(c, init_sent[c],
                [task_id |-> 0, status |-> "error",
                 error |-> "Timeout waiting for worker"])
        \/ \* lines 279-280: blpop raised
           /\ UNCHANGED results
           /\ TS_SendReturns(c, init_sent[c],
                [task_id |-> 0, status |-> "error",
                 error |-> "Redis RPC Error"])

(***************************************************************************)
(* JavaScript client (part_001).                                           *)
(***************************************************************************)
\* redisRetry(operation, maxAttempts = 3), lines 6-20: every error is
\* retried, whatever its kind.
RECURSIVE redisRetry(_, _, _)
redisRetry(run, attempt, maxAttempts) ==
  LET o == Head(run)
      n == IF o.applied THEN 1 ELSE 0
  IN IF o.err = "none"
       THEN [ok |-> TRUE, error |-> "none", invocations |-> 1, applied |-> n,
             sleeps |-> 0]
     ELSE IF attempt + 1 > maxAttempts
       THEN [ok |-> FALSE, error |-> o.err, invocations |-> 1, applied |-> n,
             sleeps |-> 0]
     ELSE LET r == redisRetry(Tail(run), attempt + 1, maxAttempts)
          IN [r EXCEPT !.invocations = @ + 1, !.applied = @ + n,
                       !.sleeps = @ + 1]

\* The runs of invocation outcomes redisRetry can meet.
RECURSIVE JS_RunsFrom(_, _)
JS_RunsFrom(attempt, maxAttempts) ==
  {<<o>> : o \in {x \in BrokerOutcomes :
                    x.err = "none" \/ attempt + 1 > maxAttempts}}
  \cup
  (IF attempt + 1 > maxAttempts THEN {}
   ELSE {<<o>> \o rest :
           o \in {x \in BrokerOutcomes : x.err # "none"},
           rest \in JS_RunsFrom(attempt + 1, maxAttempts)})

JS_Runs == JS_RunsFrom(0, DefaultMaxAttempts)

\* What redisRetry gives for the runs of one wrapped command.
JS_Retried == {redisRetry(run, 0, DefaultMaxAttempts) : run \in JS_Runs}

JS_PushedLossy ==
  {redisRetry(r, 0, DefaultMaxAttempts) :
     r \in UNION {WithLost(run) : run \in JS_Runs}}

\* What the rpush of _send gives over the connection of the run.
JS_Pushed == IF lossy THEN JS_PushedLossy ELSE JS_Retried

\* _send, lines 153-161: the envelope.
JS_payload(s, action, tid) ==
  [task_id |-> tid, browser_id |-> s.browser_id, worker_name |-> s.worker,
   action |-> action, result_key |-> tid, video |-> FALSE, record |-> FALSE,
   profile_id |-> NoProfile, browser_type |-> s.browser_type]

\* _send, lines 147-161, entered with a session.
JS_EnterSend(c, s, o, action) ==
  /\ nextTask <= Budget
  /\ nextTask' = nextTask + 1
  /\ SetLocal(c, s, init_sent[c], "rpush", o,
              JS_payload(s, action, nextTask), NoOutcome)

\* _handleAssertion, lines 185-206, once _send returned res = r.
JS_handleAssertion(c, r) ==
  IF r.status = "fail"
    THEN Finish(c, session[c], init_sent[c],
                Thrown(op[c], IF r.error # "none" THEN r.error
                              ELSE "Unknown assertion error"))
    ELSE Finish(c, session[c], init_sent[c],
                Returned(op[c], "true", "none"))

\* _send returned r to the method that awaits it.
JS_SendReturns(c, r) ==
  LET s == session[c]
      a == pending[c].action
      i == init_sent[c]
  IN CASE op[c] = "acquire" ->
            \* lines 108-111
            Finish(c, s, i, Returned("acquire", "ok", "none"))
       [] op[c] = "release" /\ a = "stop_recording" ->
            \* line 133
            JS_EnterSend(c, s, "release", "release_browser")
       [] op[c] = "release" /\ a = "release_browser" ->
            \* lines 134-143
            Finish(c, NoSession, i, Returned("release", r.status, r.error))
       [] op[c] \in AssertNames -> JS_handleAssertion(c, r)
       [] OTHER ->
            Finish(c, s, i, Returned(op[c], r.status, r.error))

\* _send threw e to the method that awaits it.
JS_SendThrows(c, e) ==
  IF op[c] = "release"
    THEN \* lines 138-143
         Finish(c, NoSession, init_sent[c], Returned("release", "error", e))
    ELSE Finish(c, session[c], init_sent[c], Thrown(op[c], e))

\* acquire(), lines 80-88: the registry read and shuffled.
JS_acquire(c, browserType, record) ==
  /\ pc[c] = "idle"
  /\ UNCHANGED <<fleet, tracking, lossy, broker>>
  /\ \E r \in JS_Retried :
       IF r.ok
         THEN \E order \in Perms(workers) :
                /\ pc' = [pc EXCEPT ![c] = "spop"]
                /\ op' = [op EXCEPT ![c] = "acquire"]
                /\ outcome' = [outcome EXCEPT ![c] = NoOutcome]
                /\ frame' = [frame EXCEPT ![c] =
                     [NoFrame EXCEPT !.order = order,
                                     !.browserType = browserType,
                                     !.record = record]]
                /\ UNCHANGED <<nextTask, session, init_sent, pending>>
         ELSE Finish(c, session[c], init_sent[c], Thrown("acquire", r.error))

\* acquire(), lines 90-95 and 113-115: the pop on the next worker of the
\* scan.
JS_acquire_spop(c) ==
  /\ pc[c] = "spop"
  /\ UNCHANGED <<fleet, tracking, lossy, workers, busy, tasks, results>>
  /\ LET w == Head(frame[c].order)
         t == frame[c].browserType
     IN \E r \in JS_Retried :
          IF ~r.ok
            THEN /\ UNCHANGED free
                 /\ Finish(c, session[c], init_sent[c],
                           Thrown("acquire", r.error))
          ELSE IF free[w][t] # {}
            THEN \E b \in free[w][t] :
                   /\ free' = [free EXCEPT ![w][t] = SPOP(@, b)]
                   /\ pc' = [pc EXCEPT ![c] = "sadd"]
                   /\ frame' = [frame EXCEPT ![c].workerName = w,
                                             ![c].bid = b]
                   /\ UNCHANGED <<nextTask, session, init_sent, op, pending,
                                  outcome>>
          ELSE IF Tail(frame[c].order) # <<>>
            THEN /\ UNCHANGED free
                 /\ frame' = [frame EXCEPT ![c].order = Tail(@)]
                 /\ UNCHANGED <<nextTask, session, init_sent, pc, op, pending,
                                outcome>>
          ELSE /\ UNCHANGED free
               /\ Finish(c, session[c], init_sent[c],
                         Thrown("acquire", "No browsers available"))

\* acquire(), lines 96-111: the popped id marked busy, the session set.
JS_acquire_sadd(c) ==
  /\ pc[c] = "sadd"
  /\ UNCHANGED <<fleet, tracking, lossy, workers, free, tasks, results>>
  /\ LET w == frame[c].workerName
         t == frame[c].browserType
         b == frame[c].bid
         s == [browser_id |-> b, worker |-> w, browser_type |-> t,
               video |-> FALSE, profile_id |-> NoProfile,
               record |-> frame[c].record]
     IN \E r \in JS_Retried :
          IF ~r.ok
            THEN /\ UNCHANGED busy
                 /\ Finish(c, session[c], init_sent[c],
                           Thrown("acquire", r.error))
          ELSE /\ busy' = [busy EXCEPT ![w][t] = SADD(@, b)]
               /\ IF frame[c].record
                    THEN JS_EnterSend(c, s, "acquire", "start_recording")
                    ELSE Finish(c, s, init_sent[c],
                                Returned("acquire", "ok", "none"))

\* release(), lines 118-144.
JS_release(c) ==
  /\ pc[c] = "idle"
  /\ UNCHANGED <<fleet, tracking, lossy, broker>>
  /\ IF session[c] = NoSession
       THEN Finish(c, session[c], init_sent[c],
                   Returned("release", "error", "not_acquired"))
     ELSE IF session[c].record
       THEN JS_EnterSend(c, session[c], "release", "stop_recording")
     ELSE JS_EnterSend(c, session[c], "release", "release_browser")

\* An action method called; _send, line 147, throws without a session.
JS_action(c, a) ==
  /\ pc[c] = "idle"
  /\ UNCHANGED <<fleet, tracking, lossy, broker>>
  /\ IF session[c] = NoSession
       THEN Finish(c, session[c], init_sent[c],
                   Thrown(a, "Browser session not acquired"))
       ELSE JS_EnterSend(c, session[c], a, a)

\* An assertion method (assertText, ...): _handleAssertion, line 183,
\* awaits this._send(action, args).
JS_assert(c, a) ==
  /\ pc[c] = "idle"
  /\ UNCHANGED <<fleet, tracking, lossy, broker>>
  /\ IF session[c] = NoSession
       THEN Finish(c, session[c], init_sent[c],
                   Thrown(a, "Browser session not acquired"))
       ELSE JS_EnterSend(c, session[c], a, a)

\* _send, line 163: the rpush under redisRetry.
JS_send_rpush(c) ==
  /\ pc[c] = "rpush"
  /\ c \in JSClients
  /\ UNCHANGED <<fleet, tracking, lossy, workers, free, busy, results>>
  /\ \E r \in JS_Pushed :
       LET q == pending[c].worker_name
       IN /\ tasks' = [tasks EXCEPT ![q] = @ \o Copies(pending[c], r.applied)]
          /\ IF r.ok
               THEN /\ pc' = [pc EXCEPT ![c] = "poll_first"]
                    /\ UNCHANGED <<nextTask, session, init_sent, op, pending,
                                   outcome, frame>>
               ELSE JS_SendThrows(c, r.error)

\* _send, lines 166-172: one round of the polling loop, the get of the
\* reply slot.  The first round follows the rpush at once.
JS_send_get(c) ==
  /\ pc[c] \in {"poll_first", "poll"}
  /\ UNCHANGED <<fleet, tracking, lossy, broker>>
  /\ LET k == pending[c].result_key
     IN \E r \in JS_Retried :
          IF ~r.ok THEN JS_SendThrows(c, r.error)
          ELSE IF results[k] # <<>>
            THEN /\ pc' = [pc EXCEPT ![c] = "del"]
                 /\ frame' = [frame EXCEPT ![c].res = Head(results[k])]
                 /\ UNCHANGED <<nextTask, session, init_sent, op, pending,
                                outcome>>
          ELSE \* line 172: sleep(50)
               /\ pc' = [pc EXCEPT ![c] = "poll"]
               /\ UNCHANGED <<nextTask, session, init_sent, op, pending,
                              outcome, frame>>

\* Variant: at the deadline the client takes its envelope back from the
\* task list.
JS_send_timeout_cancels(c) ==
  /\ pc[c] = "poll"
  /\ UNCHANGED <<fleet, tracking, lossy, workers, free, busy, results>>
  /\ tasks' = [w \in Workers |->
                 SelectSeq(tasks[w], LAMBDA e : e.task_id # pending[c].task_id)]
  /\ JS_SendReturns(c, [task_id |-> 0, status |-> "error",
                        error |-> "Timeout waiting for worker"])

\* Variant: the loop has no deadline.
JS_send_timeout_never(c) ==
  /\ pc[c] = "poll"
  /\ FALSE
  /\ UNCHANGED vars

\* _send, lines 166 and 175: the loop ends when timeout seconds have passed.
JS_send_timeout(c) ==
  /\ pc[c] = "poll"
  /\ UNCHANGED <<fleet, tracking, lossy, broker>>
  /\ JS_SendReturns(c, [task_id |-> 0, status |-> "error",
                        error |-> "Timeout waiting for worker"])

\* _send, lines 169-170: the slot deleted, the reply returned.
JS_send_del(c) ==
  /\ pc[c] = "del"
  /\ UNCHANGED <<fleet, tracking, lossy, workers, free, busy, tasks>>
  /\ LET k == pending[c].result_key
     IN \E r \in JS_Retried :
          IF ~r.ok
            THEN /\ UNCHANGED results
                 /\ JS_SendThrows(c, r.error)
            ELSE /\ results' = [results EXCEPT ![k] = <<>>]
                 /\ JS_SendReturns(c, frame[c].res)

(***************************************************************************)
(* The worker: takes the head of its task list, executes it, and deposits  *)
(* the reply in the envelope's reply slot.  release_browser returns the    *)
(* browser from the busy to the free collection.                           *)
(***************************************************************************)
ReplyStatuses == {"ok", "error"}

\* The replies the worker can give to an envelope: a status; for a failed
\* assertion, status "fail" with or without an error message and with or
\* without a screenshot_base64.
Replies(action) ==
  {[status |-> st, error |-> "none", screenshot |-> FALSE] :
     st \in ReplyStatuses}
  \cup
  (IF action \in AssertNames
     THEN [status : {"fail"}, error : {"none", "text not found"},
           screenshot : BOOLEAN]
     ELSE {})

WorkerStep(w) ==
  /\ tasks[w] # <<>>
  /\ LET e == Head(tasks[w])
     IN \E rp \in Replies(e.action) :
          /\ tasks' = [tasks EXCEPT ![w] = Tail(@)]
          /\ results' = [results EXCEPT ![e.result_key] =
                           Append(@, [task_id |-> e.task_id,
                                      status |-> rp.status,
                                      error |-> rp.error,
                                      screenshot |-> rp.screenshot])]
          /\ IF e.action = "release_browser" /\ rp.status = "ok"
               THEN /\ free' = [free EXCEPT ![w] =
                          [t \in Types |->
                             IF e.browser_id \in busy[w][t]
                               THEN free[w][t] \cup {e.browser_id}
                               ELSE free[w][t]]]
                    /\ busy' = [busy EXCEPT ![w] =
                          [t \in Types |-> busy[w][t] \ {e.browser_id}]]
               ELSE UNCHANGED <<free, busy>>
  /\ UNCHANGED <<fleet, tracking, lossy, workers, nextTask, session, init_sent, pc, op,
                 pending, outcome, frame, replied, replied_ok, lease_sent, held,
                 starved, inited, files, harness>>
  /\ claims' = [b \in Bids |->
                  IF \E t \in Types : b \in free'[w][t] \ free[w][t]
                    THEN 0 ELSE claims[b]]

(***************************************************************************)
(* History of a step of client c, read off the step itself.                *)
(***************************************************************************)
\* the step is the call of acquire() on c
AcquireCalled(c) ==
  /\ pc[c] = "idle"
  /\ op'[c] = "acquire" \/ (pc'[c] = "idle" /\ outcome'[c].call = "acquire")

\* the step ends an acquire() of c that returns {status: "ok"}
AcquireReturnedOk(c) ==
  /\ pc'[c] = "idle"
  /\ outcome'[c] = Returned("acquire", "ok", "none")
  /\ pc[c] # "idle" \/ AcquireCalled(c)

\* the step creates the lease of c
LeaseCreated(c) == session'[c] # session[c] /\ session'[c] # NoSession

\* the step hands a reply to the call of c that waits for it
ReplyReceived(c) ==
  \/ pc[c] = "blpop" /\ results' # results
  \/ pc[c] \in {"poll_first", "poll"} /\ pc'[c] = "del"

\* the status of the reply that ReplyReceived(c) hands over
ReplyStatus(c) ==
  IF pc[c] = "blpop" THEN Head(results[pending[c].result_key]).status
  ELSE frame'[c].res.status

\* The history of the claims: which acquire() calls obtained which browser.
TrackClaims(c) ==
  /\ claims' = [b \in Bids |->
                  IF AcquireReturnedOk(c) /\ session'[c].browser_id = b
                    THEN (IF claims[b] < 2 THEN claims[b] + 1 ELSE 2)
                    ELSE claims[b]]
  /\ UNCHANGED <<replied, replied_ok, lease_sent, held, starved, inited>>

\* The history of the leases: the envelopes and replies of each.
TrackLease(c) ==
  /\ replied' = [replied EXCEPT ![c] =
                   IF AcquireCalled(c) THEN FALSE
                   ELSE IF ReplyReceived(c) THEN TRUE
                   ELSE @]
  /\ replied_ok' = [replied_ok EXCEPT ![c] =
                      IF AcquireCalled(c) THEN FALSE
                      ELSE IF ReplyReceived(c) /\ ReplyStatus(c) = "ok"
                        THEN TRUE
                      ELSE @]
  /\ lease_sent' = [lease_sent EXCEPT ![c] =
                      IF LeaseCreated(c) THEN FALSE
                      ELSE IF tasks' # tasks THEN TRUE
                      ELSE @]
  /\ inited' = [inited EXCEPT ![c] = @ \/ init_sent'[c]]
  /\ UNCHANGED <<claims, held, starved>>

\* The history of the browsers an instance was leased.
TrackHeld(c) ==
  /\ held' = [held EXCEPT ![c] =
                IF AcquireReturnedOk(c)
                  THEN @ \cup {<<session'[c].worker, session'[c].browser_id>>}
                  ELSE @]
  /\ UNCHANGED <<claims, replied, replied_ok, lease_sent, starved, inited>>

\* no registered worker has a free browser, of any type
PoolEmpty == \A w \in workers, t \in Types : free[w][t] = {}

\* The history of the scans: for each acquire() that runs, whether the pool
\* was seen empty at an instant of the call, the instant of the call and
\* the state each step of any client leaves included.  (A step of the
\* worker only adds to a free collection.)
TrackScan(c) ==
  /\ starved' = [d \in Clients |->
                   IF d = c /\ AcquireCalled(c) THEN PoolEmpty \/ PoolEmpty'
                   ELSE IF pc[d] # "idle" /\ op[d] = "acquire"
                     THEN starved[d] \/ PoolEmpty'
                   ELSE starved[d]]
  /\ UNCHANGED <<claims, replied, replied_ok, lease_sent, held, inited>>

\* The history the run keeps of a step of client c.
\* the reply the step hands to the method of c that awaits _send
ReplyReturned(c) ==
  LET k == pending[c].result_key
  IN IF pc[c] \in {"blpop", "del"} /\ pc'[c] # pc[c]
          /\ Len(results'[k]) < Len(results[k])
       THEN (IF pc[c] = "blpop" THEN Head(results[k]) ELSE frame[c].res)
       ELSE NoReply

\* _handle_assertion, lines 290-302 (part_001: 187-200): on a reply "fail"
\* that holds a screenshot_base64 one file is written, unless
\* writeFileSync (or mkdirSync) throws, which the catch swallows.
WriteArtifact(c) ==
  LET r == ReplyReturned(c)
  IN IF op[c] \in AssertNames /\ r.status = "fail" /\ r.screenshot
       THEN \/ files' = [files EXCEPT ![c] = @ + 1]
            \/ UNCHANGED files
       ELSE UNCHANGED files

\* What a step of client c leaves besides the assignments of its method:
\* the artifact file of a failed assertion, and the history the run keeps.
History(c) ==
  /\ UNCHANGED harness
  /\ WriteArtifact(c)
  /\ CASE tracking = "claims" -> TrackClaims(c)
       [] tracking = "lease" -> TrackLease(c)
       [] tracking = "held" -> TrackHeld(c)
       [] tracking = "scan" -> TrackScan(c)
       [] OTHER -> UNCHANGED history

(***************************************************************************)
(* Specifications.                                                         *)
(***************************************************************************)
TS_Steps ==
  \/ \E c \in fleet \cap TSClients, t \in Types, o \in AcquireOptions :
        TS_acquire(c, t, o[1], o[2], o[3]) /\ History(c)
  \/ \E c \in fleet \cap TSClients : TS_release(c) /\ History(c)
  \/ \E c \in fleet \cap TSClients, a \in ActionNames :
        TS_action(c, a) /\ History(c)
  \/ \E c \in fleet \cap TSClients : TS_send_rpush(c) /\ History(c)
  \/ \E c \in fleet \cap TSClients : TS_send_blpop(c) /\ History(c)

JS_Steps ==
  \/ \E c \in fleet \cap JSClients, t \in Types, r \in BOOLEAN :
        JS_acquire(c, t, r) /\ History(c)
  \/ \E c \in fleet \cap JSClients : JS_acquire_spop(c) /\ History(c)
  \/ \E c \in fleet \cap JSClients : JS_acquire_sadd(c) /\ History(c)
  \/ \E c \in fleet \cap JSClients : JS_release(c) /\ History(c)
  \/ \E c \in fleet \cap JSClients, a \in ActionNames :
        JS_action(c, a) /\ History(c)
  \/ \E c \in fleet \cap JSClients : JS_send_rpush(c) /\ History(c)
  \/ \E c \in fleet \cap JSClients : JS_send_get(c) /\ History(c)
  \/ \E c \in fleet \cap JSClients : JS_send_timeout(c) /\ History(c)
  \/ \E c \in fleet \cap JSClients : JS_send_del(c) /\ History(c)

WorkerSteps == \E w \in Workers : WorkerStep(w)

\* A mixed fleet: one TypeScript and one JavaScript client on the same pool.
Init == InitFleet({"t1", "j1"}, "claims")

Next == TS_Steps \/ JS_Steps \/ WorkerSteps

Spec == Init /\ [][Next]_vars

\* One client instance alone, of either kind.
InitSolo == \E c \in {"t1", "j1"} : InitFleet({c}, "none")

SpecSolo == InitSolo /\ [][Next]_vars

\* A fleet of TypeScript clients.
NextTS == TS_Steps \/ WorkerSteps

SpecTS == InitFleet({"t1", "t2"}, "lease") /\ [][NextTS]_vars

\* A fleet of JavaScript clients.
NextJS == JS_Steps \/ WorkerSteps

SpecJS == InitFleet({"j1", "j2"}, "none") /\ [][NextJS]_vars

(***************************************************************************)
(* The scan of the JavaScript client's acquire() among other JavaScript    *)
(* clients that acquire and release.                                       *)
(***************************************************************************)
NextScan ==
  \/ \E c \in fleet \cap JSClients, t \in Types, r \in BOOLEAN :
        JS_acquire(c, t, r) /\ History(c)
  \/ \E c \in fleet \cap JSClients : JS_acquire_spop(c) /\ History(c)
  \/ \E c \in fleet \cap JSClients : JS_acquire_sadd(c) /\ History(c)
  \/ \E c \in fleet \cap JSClients : JS_release(c) /\ History(c)
  \/ \E c \in fleet \cap JSClients : JS_send_rpush(c) /\ History(c)
  \/ \E c \in fleet \cap JSClients : JS_send_get(c) /\ History(c)
  \/ \E c \in fleet \cap JSClients : JS_send_timeout(c) /\ History(c)
  \/ \E c \in fleet \cap JSClients : JS_send_del(c) /\ History(c)
  \/ WorkerSteps

SpecScan == InitFleet({"j1", "j2"}, "scan") /\ [][NextScan]_vars

(***************************************************************************)
(* Round trip: one TypeScript client on a pool of exactly one browser, two *)
(* workers registered.                                                     *)
(***************************************************************************)
OneBrowser ==
  [w \in Workers |-> [t \in Types |->
     IF w = "w1" /\ t = "chrome" THEN {"b1"} ELSE {}]]

SpecRound == InitPool({"t1"}, "held", OneBrowser) /\ [][NextTS]_vars

(***************************************************************************)
(* The life of a lease: one TypeScript client acquires, calls action and   *)
(* assertion methods, and releases.                                        *)
(***************************************************************************)
NextLease ==
  \/ \E c \in fleet \cap TSClients, t \in Types, o \in AcquireOptions :
        TS_acquire(c, t, o[1], o[2], o[3]) /\ History(c)
  \/ \E c \in fleet \cap TSClients : TS_release(c) /\ History(c)
  \/ \E c \in fleet \cap TSClients, a \in ActionNames :
        TS_action(c, a) /\ History(c)
  \/ \E c \in fleet \cap TSClients, a \in AssertNames :
        TS_assert(c, a) /\ History(c)
  \/ \E c \in fleet \cap TSClients : TS_send_rpush(c) /\ History(c)
  \/ \E c \in fleet \cap TSClients : TS_send_blpop(c) /\ History(c)
  \/ WorkerSteps

SpecLease == InitPool({"t1"}, "none", OneBrowser) /\ [][NextLease]_vars

(***************************************************************************)
(* Progress of a call.  A step of _send in which the broker answered: the  *)
(* rpush, the blpop that returns a reply or on its timeout, a round of the *)
(* polling loop, the end of the loop at its deadline, the del.  The event  *)
(* loop resumes each await whose promise settles and the clock reaches     *)
(* each deadline, so these steps are taken when they stay possible;        *)
(* nothing is assumed of the worker, nor of the broker failing.            *)
(***************************************************************************)
SendStep(c) ==
  /\ \/ TS_send_rpush(c)
     \/ TS_send_blpop(c)
     \/ JS_send_rpush(c)
     \/ JS_send_get(c)
     \/ JS_send_timeout(c)
     \/ JS_send_del(c)
  /\ History(c)

Answered(c) ==
  /\ SendStep(c)
  /\ outcome'[c].error \notin
       {"ECONNREFUSED", "ETIMEDOUT", "Redis", "TypeError", "Redis RPC Error"}

SpecLive ==
  /\ InitFleet({"t1", "j1"}, "none")
  /\ [][Next]_vars
  /\ \A c \in {"t1", "j1"} : WF_vars(Answered(c))

(***************************************************************************)
(* The mixed fleet over a connection that can lose the reply of an rpush   *)
(* the broker has executed: the client sees ETIMEDOUT, the envelope is in  *)
(* the task list.                                                          *)
(***************************************************************************)
NextLossy ==
  \/ \E c \in fleet \cap TSClients, t \in Types, o \in AcquireOptions :
        TS_acquire(c, t, o[1], o[2], o[3]) /\ History(c)
  \/ \E c \in fleet \cap TSClients, a \in ActionNames :
        TS_action(c, a) /\ History(c)
  \/ \E c \in fleet \cap TSClients : TS_send_rpush(c) /\ History(c)
  \/ \E c \in fleet \cap TSClients : TS_send_blpop(c) /\ History(c)
  \/ \E c \in fleet \cap JSClients, t \in Types, r \in BOOLEAN :
        JS_acquire(c, t, r) /\ History(c)
  \/ \E c \in fleet \cap JSClients : JS_acquire_spop(c) /\ History(c)
  \/ \E c \in fleet \cap JSClients : JS_acquire_sadd(c) /\ History(c)
  \/ \E c \in fleet \cap JSClients, a \in ActionNames :
        JS_action(c, a) /\ History(c)
  \/ \E c \in fleet \cap JSClients : JS_send_rpush(c) /\ History(c)
  \/ \E c \in fleet \cap JSClients : JS_send_get(c) /\ History(c)
  \/ \E c \in fleet \cap JSClients : JS_send_timeout(c) /\ History(c)
  \/ \E c \in fleet \cap JSClients : JS_send_del(c) /\ History(c)
  \/ WorkerSteps

SpecLossy ==
  InitOn({"t1", "j1"}, "none", OneBrowser, TRUE) /\ [][NextLossy]_vars

(***************************************************************************)
(* Assertions: a TypeScript and a JavaScript client acquire a browser and   *)
(* call assertion methods on it.                                           *)
(***************************************************************************)
NextAssert ==
  \/ \E c \in fleet \cap TSClients, t \in Types, o \in AcquireOptions :
        TS_acquire(c, t, o[1], o[2], o[3]) /\ History(c)
  \/ \E c \in fleet \cap TSClients, a \in AssertNames :
        TS_assert(c, a) /\ History(c)
  \/ \E c \in fleet \cap TSClients : TS_send_rpush(c) /\ History(c)
  \/ \E c \in fleet \cap TSClients : TS_send_blpop(c) /\ History(c)
  \/ \E c \in fleet \cap JSClients, t \in Types, r \in BOOLEAN :
        JS_acquire(c, t, r) /\ History(c)
  \/ \E c \in fleet \cap JSClients : JS_acquire_spop(c) /\ History(c)
  \/ \E c \in fleet \cap JSClients : JS_acquire_sadd(c) /\ History(c)
  \/ \E c \in fleet \cap JSClients, a \in AssertNames :
        JS_assert(c, a) /\ History(c)
  \/ \E c \in fleet \cap JSClients : JS_send_rpush(c) /\ History(c)
  \/ \E c \in fleet \cap JSClients : JS_send_get(c) /\ History(c)
  \/ \E c \in fleet \cap JSClients : JS_send_timeout(c) /\ History(c)
  \/ \E c \in fleet \cap JSClients : JS_send_del(c) /\ History(c)
  \/ WorkerSteps

SpecAssert == InitFleet({"t1", "j1"}, "none") /\ [][NextAssert]_vars

(***************************************************************************)
(* The retry wrappers alone: an operation whose successive invocations     *)
(* have the outcomes retry_in.run is given to each wrapper.                *)
(***************************************************************************)
InvocationOutcomes == {Ok, Refused, TimedOut, RedisMsg, Other}

RECURSIVE SeqsOf(_, _)
SeqsOf(S, n) ==
  IF n = 0 THEN {<<>>}
  ELSE {<<x>> \o rest : x \in S, rest \in SeqsOf(S, n - 1)}

\* One outcome more than the wrappers can ask for.
RetryRuns == SeqsOf(InvocationOutcomes, DefaultMaxAttempts + 1)

InitRetry ==
  /\ fleet = {}
  /\ tracking = "none"
  /\ lossy = FALSE
  /\ workers = Workers
  /\ free = InitFree
  /\ busy = [w \in Workers |-> [t \in Types |-> {}]]
  /\ tasks = [w \in Workers |-> <<>>]
  /\ results = [k \in TaskIds |-> <<>>]
  /\ nextTask = 1
  /\ session = [c \in Clients |-> NoSession]
  /\ init_sent = [c \in Clients |-> FALSE]
  /\ pc = [c \in Clients |-> "idle"]
  /\ op = [c \in Clients |-> "none"]
  /\ pending = [c \in Clients |-> NoEnv]
  /\ outcome = [c \in Clients |-> NoOutcome]
  /\ frame = [c \in Clients |-> NoFrame]
  /\ claims = [b \in Bids |-> 0]
  /\ replied = [c \in Clients |-> FALSE]
  /\ replied_ok = [c \in Clients |-> FALSE]
  /\ lease_sent = [c \in Clients |-> FALSE]
  /\ held = [c \in Clients |-> {}]
  /\ starved = [c \in Clients |-> FALSE]
  /\ inited = [c \in Clients |-> FALSE]
  /\ files = [c \in Clients |-> 0]
  /\ retry_in \in [run : RetryRuns, maxAttempts : 1..DefaultMaxAttempts]
  /\ retry_out = NoRetryOut

\* await withRedisRetry(operation, maxAttempts)
Call_withRedisRetry ==
  /\ retry_out.ts = NoRetried
  /\ retry_out' = [retry_out EXCEPT !.ts =
                     withRedisRetry(retry_in.run, 0, retry_in.maxAttempts)]
  /\ UNCHANGED <<fleet, tracking, lossy, broker, nextTask, local, history, files,
                 retry_in>>

\* await redisRetry(operation, maxAttempts)
Call_redisRetry ==
  /\ retry_out.js = NoRetried
  /\ retry_out' = [retry_out EXCEPT !.js =
                     redisRetry(retry_in.run, 0, retry_in.maxAttempts)]
  /\ UNCHANGED <<fleet, tracking, lossy, broker, nextTask, local, history, files,
                 retry_in>>

\* acquire(), lines 176-181: result = await this.r.eval(...), called on
\* the connection itself: one invocation, its error thrown as a
\* BrowserError.
TS_eval(run) ==
  LET o == Head(run)
  IN [ok |-> o.err = "none",
      error |-> IF o.err = "none" THEN "none" ELSE "Redis Lua Error",
      invocations |-> 1, applied |-> IF o.applied THEN 1 ELSE 0,
      sleeps |-> 0]

\* _send, lines 269-281: resp = await this.r.blpop(...), called on the
\* connection itself: one invocation, its error returned as a result.
TS_blpop(run) ==
  LET o == Head(run)
  IN [ok |-> o.err = "none",
      error |-> IF o.err = "none" THEN "none" ELSE "Redis RPC Error",
      invocations |-> 1, applied |-> IF o.applied THEN 1 ELSE 0,
      sleeps |-> 0]

Call_eval ==
  /\ retry_out.eval = NoRetried
  /\ retry_out' = [retry_out EXCEPT !.eval = TS_eval(retry_in.run)]
  /\ UNCHANGED <<fleet, tracking, lossy, broker, nextTask, local, history, files,
                 retry_in>>

Call_blpop ==
  /\ retry_out.blpop = NoRetried
  /\ retry_out' = [retry_out EXCEPT !.blpop = TS_blpop(retry_in.run)]
  /\ UNCHANGED <<fleet, tracking, lossy, broker, nextTask, local, history, files,
                 retry_in>>

NextRetry ==
  Call_withRedisRetry \/ Call_redisRetry \/ Call_eval \/ Call_blpop

SpecRetry == InitRetry /\ [][NextRetry]_vars

(***************************************************************************)
(* The allocation race: every client of the fleet calls acquire() once,    *)
(* for the same browser type, and nothing else happens.                    *)
(***************************************************************************)
RaceType == "chrome"

Race_TS_acquire(c) ==
  /\ outcome[c] = NoOutcome
  /\ TS_acquire(c, RaceType, FALSE, NoProfile, FALSE)

Race_JS_acquire(c) ==
  /\ outcome[c] = NoOutcome
  /\ JS_acquire(c, RaceType, FALSE)

NextRace ==
  \/ \E c \in fleet \cap TSClients : Race_TS_acquire(c) /\ History(c)
  \/ \E c \in fleet \cap JSClients : Race_JS_acquire(c) /\ History(c)
  \/ \E c \in fleet \cap JSClients : JS_acquire_spop(c) /\ History(c)
  \/ \E c \in fleet \cap JSClients : JS_acquire_sadd(c) /\ History(c)

SpecRace == InitFleet(Clients, "none") /\ [][NextRace]_vars

(***************************************************************************)
(* The claims.                                                             *)
(***************************************************************************)
\* the step is the call of an action method on c
ActionCalled(c) ==
  /\ pc[c] = "idle"
  /\ \/ op'[c] \in ActionNames
     \/ outcome'[c] # outcome[c] /\ outcome'[c].call \in ActionNames

AcquireOk == Returned("acquire", "ok", "none")
NoBrowsers == Thrown("acquire", "No browsers available")

\* C1: no two acquire() calls that both succeed obtain the same browser,
\* unless the worker returned it to the free collection between the two
\* claims: since a browser was last returned, at most one successful
\* acquire() obtained it.  Mixed fleet of a TypeScript and a JavaScript
\* client.
C1_DisjointClaims == \A b \in Bids : claims[b] <= 1

\* Both clients of the fleet hold a lease that a successful acquire() gave.
C1_Witness ==
  \E c \in fleet, d \in fleet :
    /\ c \in TSClients /\ d \in JSClients
    /\ outcome[c] = AcquireOk /\ outcome[d] = AcquireOk
    /\ claims[session[c].browser_id] = 1
    /\ claims[session[d].browser_id] = 1

\* C2: N clients each call acquire() once for one type whose pool holds
\* K < N free browsers; with no broker failure, exactly K calls succeed,
\* with pairwise distinct (worker, browser_id), and N - K fail with the
\* no-browsers-available error.
RaceK == Cardinality(UNION {InitFree[w][RaceType] : w \in Workers})
RaceOver == \A c \in fleet : pc[c] = "idle" /\ outcome[c].call = "acquire"
RaceClean == \A c \in fleet : outcome[c] \in {AcquireOk, NoBrowsers}
RaceWinners == {c \in fleet : outcome[c] = AcquireOk}
RaceLosers == {c \in fleet : outcome[c] = NoBrowsers}

C2_ExactlyKSucceed ==
  (RaceOver /\ RaceClean) =>
    /\ RaceK < Cardinality(fleet)
    /\ Cardinality(RaceWinners) = RaceK
    /\ Cardinality(RaceLosers) = Cardinality(fleet) - RaceK
    /\ \A c \in RaceWinners, d \in RaceWinners :
         c # d => <<session[c].worker, session[c].browser_id>>
                  # <<session[d].worker, session[d].browser_id>>

\* The race is over without a broker failure, a TypeScript and a JavaScript
\* client among the losers or the winners.
C2_Witness ==
  /\ RaceOver /\ RaceClean
  /\ RaceWinners \cap TSClients # {} /\ RaceWinners \cap JSClients # {}
  /\ RaceLosers # {}

\* C3: in a fleet of TypeScript clients every browser id is, in every
\* reachable state, a member of exactly one collection: one worker, one
\* type, free or busy.
Membership(b) ==
  {x \in Workers \X Types \X {"free", "busy"} :
     \/ x[3] = "free" /\ b \in free[x[1]][x[2]]
     \/ x[3] = "busy" /\ b \in busy[x[1]][x[2]]}

C3_ExactlyOneCollection == \A b \in Bids : Cardinality(Membership(b)) = 1

\* A lease is held on a busy browser while another browser is free.
C3_Witness ==
  \E c \in fleet :
    /\ session[c] # NoSession
    /\ session[c].browser_id
         \in busy[session[c].worker][session[c].browser_type]
    /\ \E w \in Workers, t \in Types : free[w][t] # {}

\* C4: an action method called on a client that holds no lease throws the
\* session-not-acquired error and does no broker operation: nothing is
\* enqueued, no task id drawn, no reply slot waited on.
C4_NoLeaseNoBrokerIO ==
  [][\A c \in fleet :
       (ActionCalled(c) /\ session[c] = NoSession) =>
         /\ pc'[c] = "idle"
         /\ outcome'[c] = Thrown(outcome'[c].call,
                                 "Browser session not acquired")
         /\ UNCHANGED <<broker, nextTask>>]_vars

\* A client that acquired and released, the other client never used, has
\* got the error from an action method.
C4_Witness ==
  \E c \in fleet :
    /\ session[c] = NoSession
    /\ outcome[c] = Thrown("click", "Browser session not acquired")
    /\ \A d \in fleet \ {c} : outcome[d] = NoOutcome /\ pc[d] = "idle"
    /\ \E w \in Workers : \E i \in DOMAIN tasks[w] :
         tasks[w][i].action = "release_browser"

\* C5: after release() returned, the local lease is cleared, on every path.
C5_ReleaseClearsLease ==
  \A c \in fleet :
    (pc[c] = "idle" /\ outcome[c].call = "release") => session[c] = NoSession

\* release() returned the error a broker operation raised.
C5_Witness ==
  \E c \in fleet :
    /\ pc[c] = "idle"
    /\ outcome[c] = Returned("release", "error", "ECONNREFUSED")
    /\ session[c] = NoSession

\* the errors a failing broker operation leaves in the outcome of a call
BrokerErrors ==
  {"ECONNREFUSED", "ETIMEDOUT", "Redis", "TypeError", "Redis RPC Error",
   "Redis Lua Error"}

TimeoutResult(call) == Returned(call, "error", "Timeout waiting for worker")

\* C6: TypeScript client.  After release() returned, whatever its result,
\* an acquire() on the same instance succeeds whenever a registered worker
\* has a free browser of the type: the script claims one of the free
\* browsers, and the call returns ok, unless a broker operation of that very
\* acquire() fails.
C6_AcquireAfterRelease ==
  [][\A c \in fleet \cap TSClients :
       /\ ( /\ outcome[c].call = "release"
            /\ AcquireCalled(c)
            /\ \E w \in workers : free[w][RaceType] # {} )
          => \/ outcome'[c] = Thrown("acquire", "Redis Lua Error")
             \/ /\ session'[c] # NoSession
                /\ session'[c].worker \in workers
                /\ session'[c].browser_id
                     \in free[session'[c].worker][RaceType]
                /\ pc'[c] = "idle" => outcome'[c] = AcquireOk
       /\ (op[c] = "acquire" /\ pc[c] # "idle" /\ pc'[c] = "idle")
          => \/ outcome'[c] = AcquireOk
             \/ outcome'[c].error \in BrokerErrors]_vars

\* The only client that acted released a lease without a reply (its
\* release_browser envelope is still queued, the browser still busy) and
\* then acquired another browser.
C6_Witness ==
  \E c \in fleet \cap TSClients :
    /\ outcome[c] = AcquireOk
    /\ session[c] # NoSession
    /\ \A d \in fleet \ {c} : outcome[d] = NoOutcome /\ pc[d] = "idle"
    /\ \E w \in Workers : \E i \in DOMAIN tasks[w] :
         /\ tasks[w][i].action = "release_browser"
         /\ tasks[w][i].browser_id # session[c].browser_id

\* the step ends the wait of c on an empty reply slot
WaitEndsEmpty(c) ==
  /\ pc[c] \in {"blpop", "poll"}
  /\ pc'[c] \notin {pc[c], "del"}
  /\ results[pending[c].result_key] = <<>>

\* C7: when no reply is in the reply slot as the wait of a call ends, and
\* no broker operation failed, the call returns {status: "error", error:
\* "Timeout waiting for worker"}: nothing is thrown, and the lease stays as
\* it was (release() itself drops it once its last call returned).
C7_TimeoutIsAResult ==
  [][\A c \in fleet :
       (WaitEndsEmpty(c) /\ outcome'[c].error \notin BrokerErrors) =>
         /\ outcome'[c].kind # "throw"
         /\ session[c] # NoSession
         /\ pending[c].action # "release_browser" => session'[c] = session[c]
         /\ op[c] \in ActionNames => outcome'[c] = TimeoutResult(op[c])
         /\ pending[c].action = "release_browser"
              => outcome'[c] = TimeoutResult("release")]_vars

\* An action call of each client returned the timeout result, the lease
\* held.
C7_Witness ==
  \E c \in fleet \cap TSClients, d \in fleet \cap JSClients :
    /\ outcome[c] = TimeoutResult("click") /\ session[c] # NoSession
    /\ outcome[d] = TimeoutResult("click") /\ session[d] # NoSession

\* C8: TypeScript client.  A broker failure during a call on a held lease
\* never leaves the call as an exception: an action method throws only the
\* session-not-acquired error.
C8_NoThrowOnHeldLease ==
  \A c \in fleet \cap TSClients :
    (outcome[c].kind = "throw" /\ outcome[c].call \in ActionNames)
      => outcome[c].error = "Browser session not acquired"

\* the step enqueues the envelope of the pending call of c
Enqueues(c) ==
  /\ pc[c] = "rpush"
  /\ pc'[c] # "rpush"
  /\ Len(tasks'[pending[c].worker_name]) > Len(tasks[pending[c].worker_name])

CarriesInit(e) ==
  e.video \/ e.record \/ e.profile_id # NoProfile \/ e.browser_type # NoType

HasInitOptions(s) == s.video \/ s.record \/ s.profile_id # NoProfile

C10_ReleaseReachesReleaseBrowser ==
  [][\A c \in fleet :
       (op[c] = "release" /\ pc[c] # "idle" /\ pc'[c] = "idle")
         => pending[c].action = "release_browser"]_vars

\* the errors of the broker connection that are transient
TransientErrors == {"ECONNREFUSED", "ETIMEDOUT", "Redis"}

\* the first n invocations of the operation fail with a transient error
TransientFor(n) ==
  \A i \in 1..n : retry_in.run[i].err \in TransientErrors

\* C11: with maxAttempts = 3, an operation that fails with a transient
\* transport error on its first two invocations and succeeds on the third
\* makes each retry wrapper return the result of the third invocation; one
\* that fails with a transient error on four invocations in a row makes
\* each wrapper raise the transport error (that of the fourth invocation,
\* after which none is made).
C11_ThirdSucceedsFourthRaises ==
  \A k \in {"ts", "js"} :
    (retry_in.maxAttempts = 3 /\ retry_out[k] # NoRetried) =>
      /\ (TransientFor(2) /\ retry_in.run[3] = Ok)
           => /\ retry_out[k].ok
              /\ retry_out[k].invocations = 3
              /\ retry_out[k].error = "none"
      /\ TransientFor(4)
           => /\ ~retry_out[k].ok
              /\ retry_out[k].invocations = 4
              /\ retry_out[k].error = retry_in.run[4].err

\* Both wrappers returned from the third invocation after two different
\* transient failures.
C11_Witness ==
  /\ retry_in.maxAttempts = 3
  /\ retry_in.run[1] = Refused /\ retry_in.run[2] = TimedOut
  /\ retry_in.run[3] = Ok
  /\ retry_out.ts.ok /\ retry_out.ts.invocations = 3
  /\ retry_out.js.ok /\ retry_out.js.invocations = 3

\* C12: withRedisRetry raises a failure that is not a transient transport
\* error unmodified, after exactly one invocation of the operation and
\* without a backoff sleep.
C12_NonTransientRaisedAtOnce ==
  (retry_out.ts # NoRetried /\ retry_in.run[1].err # "none"
     /\ retry_in.run[1].err \notin TransientErrors) =>
    /\ ~retry_out.ts.ok
    /\ retry_out.ts.error = retry_in.run[1].err
    /\ retry_out.ts.invocations = 1
    /\ retry_out.ts.sleeps = 0

\* withRedisRetry raised the TypeError of the first invocation, though the
\* second invocation would have succeeded.
C12_Witness ==
  /\ retry_in.run[1] = Other /\ retry_in.run[2] = Ok
  /\ retry_out.ts = [ok |-> FALSE, error |-> "TypeError", invocations |-> 1,
                     applied |-> 0, sleeps |-> 0]

\* C13: redisRetry raises a failure that is not a transient transport error
\* after a single invocation of the operation.
C13_JSNonTransientRaisedAtOnce ==
  (retry_out.js # NoRetried /\ retry_in.run[1].err # "none"
     /\ retry_in.run[1].err \notin TransientErrors) =>
    /\ ~retry_out.js.ok
    /\ retry_out.js.invocations = 1

\* C14: in the TypeScript client the allocation script, the enqueue of the
\* request and the wait on the reply slot all run under the retry wrapper:
\* when the first invocation of any of them fails with a transient
\* transport error and the second succeeds, the operation succeeds.
C14_EveryBrokerOpRetried ==
  \A k \in {"ts", "eval", "blpop"} :
    ( /\ retry_out[k] # NoRetried
      /\ retry_in.run[1].err \in TransientErrors
      /\ retry_in.run[2] = Ok )
      => retry_out[k].ok /\ retry_out[k].invocations = 2

\* the type every acquire() of the model asks for has no free browser on any
\* registered worker
NoneFree == \A w \in workers : free[w][RaceType] = {}

\* C15: acquire() of the TypeScript client throws the no-browsers-available
\* error exactly when, at its scan, no registered worker has a free browser
\* of the type: the step that throws it finds every free collection of the
\* type empty and changes no free or busy collection, the step that creates
\* a lease finds one not empty, and acquire() ends its scan in no other way
\* than these two and the error of the script call.
C15_NoBrowsersIffNoneFree ==
  [][\A c \in fleet \cap TSClients :
       /\ (pc[c] = "idle" /\ pc'[c] = "idle" /\ outcome'[c] # outcome[c]
             /\ outcome'[c] = NoBrowsers)
            => NoneFree /\ UNCHANGED <<workers, free, busy, tasks, nextTask>>
       /\ (pc[c] = "idle" /\ LeaseCreated(c)) => ~NoneFree
       /\ (pc[c] = "idle" /\ pc'[c] = "idle" /\ outcome'[c] # outcome[c]
             /\ outcome'[c].call = "acquire")
            => outcome'[c] \in {AcquireOk, NoBrowsers,
                                Thrown("acquire", "Redis Lua Error")}]_vars

\* acquire() threw the error with every browser of the pool busy.
C15_Witness ==
  \E c \in fleet \cap TSClients :
    /\ outcome[c] = NoBrowsers
    /\ NoneFree
    /\ \A b \in Bids : \E w \in Workers : b \in busy[w][RaceType]

\* C16: a client instance holds at most one lease at a time: no step of an
\* instance that holds a lease claims a browser, that is, adds an id to a
\* busy collection.
C16_NoSecondClaim ==
  [][\A c \in fleet :
       ( /\ session[c] # NoSession
         /\ pc'[c] # pc[c] \/ session'[c] # session[c] )
         => \A w \in Workers, t \in Types : busy'[w][t] \subseteq busy[w][t]]_vars

\* the step hands a reply with status "fail" to an assertion method of c
AssertionFailed(c) ==
  op[c] \in AssertNames /\ ReplyReturned(c).status = "fail"

\* C17: an assertion whose reply has status "fail" always throws an error
\* that carries the error message of the reply, or the fallback message
\* when the reply has none; at most one artifact file is written, and only
\* when the reply holds an image; whether or not the file could be written,
\* the error thrown is the same.
C17_FailedAssertionThrows ==
  [][\A c \in fleet :
       AssertionFailed(c) =>
         /\ pc'[c] = "idle"
         /\ outcome'[c]
              = Thrown(op[c],
                       IF ReplyReturned(c).error # "none"
                         THEN ReplyReturned(c).error
                         ELSE "Unknown assertion error")
         /\ files'[c] \in {files[c], files[c] + 1}
         /\ ~ReplyReturned(c).screenshot => files'[c] = files[c]
         /\ session'[c] = session[c]]_vars

\* The TypeScript client threw the message of the reply after it wrote the
\* artifact file; the JavaScript client threw the fallback message, no file
\* written.
C17_Witness ==
  \E c \in fleet \cap TSClients, d \in fleet \cap JSClients :
    /\ outcome[c] = Thrown("assert_text", "text not found")
    /\ files[c] = 1
    /\ outcome[d] = Thrown("assert_text", "Unknown assertion error")
    /\ files[d] = 0

\* C18: an assertion method returns true only if the reply of the worker
\* had status "ok".
C18_TrueOnlyOnOk ==
  [][\A c \in fleet :
       ( /\ op[c] \in AssertNames
         /\ pc[c] # "idle" /\ pc'[c] = "idle"
         /\ outcome'[c] = Returned(op[c], "true", "none") )
         => ReplyReturned(c).status = "ok"]_vars

\* the <<worker, browser id>> free for the type of the model's acquire()
FreeSlots == {x \in Workers \X Bids : x[2] \in free[x[1]][RaceType]}

\* C19: round trip.  After a client acquired browser b, released it, and
\* the worker returned b to its free collection, the next acquire() of the
\* type obtains exactly b on the same worker when b is the only free
\* browser of the pool (unless the script call itself fails).
C19_RoundTrip ==
  [][\A c \in fleet \cap TSClients : \A x \in held[c] :
       ( /\ outcome[c].call = "release"
         /\ AcquireCalled(c)
         /\ FreeSlots = {x} )
         => \/ outcome'[c] = Thrown("acquire", "Redis Lua Error")
            \/ /\ session'[c] # NoSession
               /\ <<session'[c].worker, session'[c].browser_id>> = x
               /\ pc'[c] = "idle" => outcome'[c] = AcquireOk]_vars

\* The client holds again the browser it was leased before: release() got
\* the worker's ok, and the second acquire() returned ok.
C19_Witness ==
  \E c \in fleet \cap TSClients :
    /\ outcome[c] = AcquireOk
    /\ <<session[c].worker, session[c].browser_id>> \in held[c]
    /\ session[c].browser_id \in busy[session[c].worker][RaceType]
    /\ nextTask > 1
    /\ \A w \in Workers : tasks[w] = <<>>
    /\ \A k \in TaskIds : results[k] = <<>>
    /\ ~session[c].video /\ ~session[c].record
    /\ session[c].profile_id = NoProfile

\* C20: a call returns only the reply deposited under the reply key it
\* generated: the reply a step hands to a waiting call has the task_id of
\* the request that call enqueued, whatever the interleaving of the calls
\* of the clients and of back-to-back calls on one lease.
C20_OwnReplyOnly ==
  [][\A c \in fleet :
       ReplyReturned(c) # NoReply
         => ReplyReturned(c).task_id = pending[c].task_id]_vars

\* Back-to-back calls on one lease: the first timed out and its reply came
\* late into its own slot, where it stays; the second returned its reply.
C20_Witness ==
  \E c \in fleet :
    /\ outcome[c] = Returned("click", "ok", "none")
    /\ \A d \in fleet \ {c} : outcome[d] = NoOutcome /\ pc[d] = "idle"
    /\ \E k \in TaskIds :
         /\ results[k] # <<>>
         /\ Head(results[k]).task_id = k
         /\ Head(results[k]).status = "error"

\* C21: release() called on a held lease, the enqueues succeeding, enqueues
\* a release_browser request that names the leased browser on the queue of
\* the leasing worker, whatever the earlier calls of the lease gave:
\* release() on a held lease never returns at once, it ends only after the
\* wait of its release_browser call unless an enqueue failed, and that
\* envelope goes to the end of the leasing worker's queue.
C21_ReleaseEnqueuesReleaseBrowser ==
  [][\A c \in fleet \cap TSClients :
       /\ ( /\ pc[c] = "idle" /\ pc'[c] = "idle"
            /\ session[c] # NoSession
            /\ outcome'[c] # outcome[c] )
          => outcome'[c].call # "release"
       /\ (op[c] = "release" /\ pc[c] # "idle" /\ pc'[c] = "idle")
          => \/ pc[c] = "rpush"
             \/ pc[c] = "blpop" /\ pending[c].action = "release_browser"
       /\ (op[c] = "release" /\ pc[c] = "blpop")
          => \/ pending[c].action # "release_browser"
             \/ /\ pending[c].browser_id = session[c].browser_id
                /\ pending[c].worker_name = session[c].worker
       /\ ( /\ op[c] = "release" /\ Enqueues(c)
            /\ pending[c].action = "release_browser" )
          => tasks'[session[c].worker]
               = Append(tasks[session[c].worker], pending[c])]_vars

\* An assertion of the lease threw after it wrote its artifact, a click
\* timed out (its envelope is still queued), and release() has enqueued
\* release_browser for the leased browser behind it.
C21_Witness ==
  \E c \in fleet \cap TSClients :
    /\ op[c] = "release" /\ pc[c] = "blpop"
    /\ files[c] = 1
    /\ \E i \in DOMAIN tasks[session[c].worker] :
         /\ i > 1
         /\ tasks[session[c].worker][i] = pending[c]
         /\ pending[c].action = "release_browser"
         /\ pending[c].browser_id = session[c].browser_id
         /\ tasks[session[c].worker][i - 1].action = "click"

\* C22: every action call on a held lease eventually completes, with the
\* worker's reply, with the timeout result or by raising, even when the
\* worker never replies: a call that has entered _send leads to the state
\* where the method has returned or thrown.
C22_CallCompletes ==
  \A c \in Clients :
    (c \in fleet /\ op[c] \in ActionNames /\ pc[c] # "idle")
      ~> (pc[c] = "idle" /\ outcome[c].call \in ActionNames)

\* Both clients' click calls have ended with the timeout result while the
\* envelopes are still in the task list: the worker never took them.
C22_Witness ==
  \A c \in {"t1", "j1"} :
    /\ c \in fleet /\ pc[c] = "idle" /\ session[c] # NoSession
    /\ outcome[c] = TimeoutResult("click")
    /\ \E i \in DOMAIN tasks[session[c].worker] :
         /\ tasks[session[c].worker][i].action = "click"
         /\ tasks[session[c].worker][i].browser_id = session[c].browser_id

\* C23: JavaScript client.  In every reachable state, the states between
\* the spop and the sadd of acquire() and the states after acquire() raised
\* included, every browser id of the pool is a member of exactly one of the
\* free and busy collections.
C23_JSExactlyOneCollection ==
  (fleet \subseteq JSClients) =>
    \A b \in Bids : \E x \in Workers \X Types \X {"free", "busy"} :
      Membership(b) = {x}

\* C24: JavaScript client.  acquire() fails with the no-browsers-available
\* error only if at some single instant of the call every registered
\* worker's free collection of the type was empty.
C24_FailsOnlyWhenPoolEmpty ==
  \A c \in fleet \cap JSClients :
    (pc[c] = "idle" /\ outcome[c] = NoBrowsers) => starved[c]

\* C25: TypeScript client.  The initialized flag (_init_sent) goes from
\* false to true only in the step in which a call receives a reply of
\* status "ok"; a timeout, a broker transport error, and a reply of status
\* "error" or "fail" leave it false.
C25_InitOnlyOnOkReply ==
  [][\A c \in fleet \cap TSClients :
       (~init_sent[c] /\ init_sent'[c]) =>
         /\ pc[c] = "blpop"
         /\ results[pending[c].result_key] # <<>>
         /\ Head(results[pending[c].result_key]).status = "ok"]_vars

\* C26: TypeScript client.  Whenever acquire() creates a lease the
\* initialized flag is false, also when an earlier lease of the instance
\* had brought it to true; the first request enqueued for the new lease is
\* built with the flag false and carries the fields the lease asked for.
C26_NewLeaseNotInitialized ==
  [][\A c \in fleet \cap TSClients :
       /\ LeaseCreated(c) => ~init_sent'[c]
       /\ (Enqueues(c) /\ ~lease_sent[c]) =>
            /\ ~init_sent[c]
            /\ pending[c].video = session[c].video
            /\ pending[c].record = session[c].record
            /\ pending[c].profile_id = session[c].profile_id
            /\ CarriesInit(pending[c]) = HasInitOptions(session[c])]_vars

\* The flag of the instance has been true, under an earlier lease; the
\* get_title of a new acquire() is enqueued, built with the flag false, and
\* carries the fields.
C26_Witness ==
  \E c \in fleet \cap TSClients :
    /\ inited[c] /\ ~init_sent[c]
    /\ pc[c] = "blpop" /\ op[c] = "acquire"
    /\ CarriesInit(pending[c])
    /\ \E i \in DOMAIN tasks[session[c].worker] :
         tasks[session[c].worker][i] = pending[c]

\* C27: TypeScript client.  acquire() with a profile, video or record
\* option enqueues a get_title request that carries those fields on the
\* queue of the claimed worker before it returns; with none of the options
\* it enqueues nothing: it returns ok only after the wait of that get_title,
\* or at once, no task id drawn and no task list changed.
C27_GetTitleBeforeReturn ==
  [][\A c \in fleet \cap TSClients :
       /\ ( /\ AcquireReturnedOk(c)
            /\ pc[c] # "idle" \/ session'[c] # session[c] ) =>
            IF HasInitOptions(session'[c])
              THEN /\ pc[c] = "blpop" /\ op[c] = "acquire"
                   /\ pending[c].action = "get_title"
                   /\ session'[c] = session[c]
              ELSE /\ pc[c] = "idle"
                   /\ tasks' = tasks /\ nextTask' = nextTask
       /\ (op[c] = "acquire" /\ pc[c] = "blpop") =>
            /\ pending[c].action = "get_title"
            /\ pending[c].worker_name = session[c].worker
            /\ pending[c].browser_id = session[c].browser_id
            /\ pending[c].video = session[c].video
            /\ pending[c].record = session[c].record
            /\ pending[c].profile_id = session[c].profile_id
       /\ (op[c] = "acquire" /\ Enqueues(c)) =>
            tasks'[session[c].worker]
              = Append(tasks[session[c].worker], pending[c])]_vars

\* One client's acquire() with capture options has returned ok while its
\* get_title, carrying the fields, is still in the claimed worker's task
\* list; another's acquire() without options has returned ok and nothing
\* was enqueued for its lease.
C27_Witness ==
  \E c, d \in fleet \cap TSClients :
    /\ pc[c] = "idle" /\ outcome[c] = AcquireOk
    /\ HasInitOptions(session[c])
    /\ \E i \in DOMAIN tasks[session[c].worker] :
         LET e == tasks[session[c].worker][i]
         IN /\ e.action = "get_title" /\ CarriesInit(e)
            /\ e.browser_id = session[c].browser_id
    /\ pc[d] = "idle" /\ outcome[d] = AcquireOk
    /\ ~HasInitOptions(session[d])
    /\ ~lease_sent[d]

\* the step starts a call of _send within release() of c
ReleaseSends(c) == op'[c] = "release" /\ pc'[c] = "rpush" /\ pc[c] # "rpush"

\* C28: TypeScript client.  release() of a lease that asked for video and
\* record enqueues stop_video, then stop_record, then release_browser, each
\* call started only as the wait of the previous one ended; release_browser
\* is the last request of the lease: after its call release() ends with the
\* lease dropped, and the instance enqueues only for the lease it holds.
C28_ReleaseOrder ==
  [][\A c \in fleet \cap TSClients :
       /\ (ReleaseSends(c) /\ session[c].video /\ session[c].record) =>
            \/ /\ pc[c] = "idle"
               /\ pending'[c].action = "stop_video"
            \/ /\ pc[c] = "blpop" /\ pending[c].action = "stop_video"
               /\ pending'[c].action = "stop_record"
            \/ /\ pc[c] = "blpop" /\ pending[c].action = "stop_record"
               /\ pending'[c].action = "release_browser"
       /\ ( /\ op[c] = "release" /\ pc[c] # "idle"
            /\ pending[c].action = "release_browser" ) =>
            \/ pc'[c] = pc[c] /\ pending'[c] = pending[c]
            \/ pc[c] = "rpush" /\ pc'[c] = "blpop" /\ pending'[c] = pending[c]
            \/ pc'[c] = "idle" /\ session'[c] = NoSession
       /\ Enqueues(c) =>
            /\ session[c] # NoSession
            /\ pending[c].browser_id = session[c].browser_id
            /\ pending[c].worker_name = session[c].worker]_vars

\* release() of a lease with video and record has enqueued its three
\* requests, none taken by the worker yet: they stand in the task list in
\* the order stop_video, stop_record, release_browser.
C28_Witness ==
  \E c \in fleet \cap TSClients :
    /\ op[c] = "release" /\ pc[c] = "blpop"
    /\ session[c] # NoSession /\ session[c].video /\ session[c].record
    /\ \E i \in DOMAIN tasks[session[c].worker] :
         /\ i + 2 = Len(tasks[session[c].worker])
         /\ tasks[session[c].worker][i].action = "stop_video"
         /\ tasks[session[c].worker][i + 1].action = "stop_record"
         /\ tasks[session[c].worker][i + 2] = pending[c]
         /\ pending[c].action = "release_browser"

\* C29: each retry wrapper invokes the wrapped operation at most
\* maxAttempts times in one call: after maxAttempts transient failures in a
\* row it raises the last error without another invocation.
C29_AtMostMaxAttemptsInvocations ==
  \A k \in {"ts", "js"} :
    retry_out[k] # NoRetried =>
      /\ retry_out[k].invocations <= retry_in.maxAttempts
      /\ ( /\ Len(retry_in.run) >= retry_in.maxAttempts
           /\ TransientFor(retry_in.maxAttempts) )
         => /\ ~retry_out[k].ok
            /\ retry_out[k].invocations = retry_in.maxAttempts

\* q is p with envelopes appended
Extends(q, p) == Len(q) >= Len(p) /\ SubSeq(q, 1, Len(p)) = p

\* C30: a call that times out does not cancel its request.  No step of a
\* client removes an envelope from a task list: a task list changes only by
\* envelopes appended to it, or by the worker taking its head, which it
\* executes and answers in the envelope's reply slot; the step in which a
\* call ends with the timeout result leaves every task list as it was.
C30_EnvelopeNeverWithdrawn ==
  [][/\ \A w \in Workers :
          \/ Extends(tasks'[w], tasks[w])
          \/ /\ tasks[w] # <<>>
             /\ tasks'[w] = Tail(tasks[w])
             /\ \A c \in fleet : pc'[c] = pc[c] /\ outcome'[c] = outcome[c]
             /\ LET e == Head(tasks[w])
                IN /\ Len(results'[e.result_key])
                        = Len(results[e.result_key]) + 1
                   /\ results'[e.result_key]
                        [Len(results'[e.result_key])].task_id = e.task_id
     /\ \A c \in fleet :
          ( /\ pc[c] \in {"blpop", "poll"} /\ pc'[c] = "idle"
            /\ outcome'[c].error = "Timeout waiting for worker" )
          => tasks' = tasks]_vars

\* A click of each client has ended with the timeout result; the envelope
\* of one is still in the task list, the other was taken and executed by
\* the worker after the timeout: its reply lies in a slot no call waits on.
C30_Witness ==
  \E c, d \in fleet :
    /\ c # d
    /\ pc[c] = "idle" /\ outcome[c] = TimeoutResult("click")
    /\ pc[d] = "idle" /\ outcome[d] = TimeoutResult("click")
    /\ \E i \in DOMAIN tasks[session[c].worker] :
         /\ tasks[session[c].worker][i].action = "click"
         /\ tasks[session[c].worker][i].browser_id = session[c].browser_id
    /\ \E k \in TaskIds : results[k] # <<>>

\* C38: each call puts at most one envelope on the worker's task list, also
\* when the enqueue is retried: no task list ever holds two envelopes of the
\* same task id, whether or not the reply of an rpush was lost.
C38_OneEnvelopePerCall ==
  \A w \in Workers : \A i, j \in DOMAIN tasks[w] :
    tasks[w][i].task_id = tasks[w][j].task_id => i = j

\* the step starts a call of _send of c, which draws a reply key
DrawsKey(c) == pc'[c] = "rpush" /\ pc[c] # "rpush"

\* C31: each reply slot serves exactly one call.  The slot is empty once
\* the call has returned the reply deposited in it, and the key a call
\* draws is one that no call waits on, no queued envelope names and no
\* reply lies under.
C31_SlotServesOneCall ==
  [][\A c \in fleet :
       /\ ReplyReturned(c) # NoReply
            => results'[pending[c].result_key] = <<>>
       /\ DrawsKey(c) =>
            LET k == pending'[c].result_key
            IN /\ results[k] = <<>>
               /\ \A d \in fleet \ {c} : pending[d].result_key # k
               /\ \A w \in Workers : \A i \in DOMAIN tasks[w] :
                    tasks[w][i].result_key # k]_vars

\* C32: with no broker failure the polling wait of the JavaScript client
\* and the blocking wait of the TypeScript client give the caller the same
\* outcome: the deposited reply when it is in the slot before the timeout
\* elapses, the timeout result otherwise, the slot left empty after a reply
\* was returned.  In both, a wait ends with the timeout result only on an
\* empty slot, and a wait that ends on a reply returns that reply and
\* leaves the slot empty.
C32_SameWaitOutcome ==
  [][\A c \in fleet :
       /\ ( /\ pc[c] \in {"blpop", "poll"} /\ pc'[c] = "idle"
            /\ op[c] \in ActionNames
            /\ outcome'[c].error = "Timeout waiting for worker" )
          => results[pending[c].result_key] = <<>>
       /\ (ReplyReturned(c) # NoReply /\ op[c] \in ActionNames)
          => /\ outcome'[c].status = ReplyReturned(c).status
             /\ results'[pending[c].result_key] = <<>>]_vars

\* browser b of worker w is busy, no client holds a lease on it and no
\* release_browser request for it is queued
Stranded(w, b) ==
  /\ \E t \in Types : b \in busy[w][t]
  /\ \A c \in fleet :
       session[c] = NoSession
         \/ session[c].worker # w \/ session[c].browser_id # b
  /\ \A i \in DOMAIN tasks[w] :
       tasks[w][i].action # "release_browser" \/ tasks[w][i].browser_id # b

\* C33: clearing the local lease does not imply that the remote busy entry
\* is cleared.  A release() that ends because an enqueue raised, nothing
\* pushed, leaves the leased browser stranded: busy, leased by no client,
\* no release_browser queued for it; and a stranded browser stays stranded
\* whatever the clients and the workers do.
C33_StrandedAfterFailedRelease ==
  [][/\ \A c \in fleet :
          ( /\ op[c] = "release" /\ pc[c] = "rpush" /\ pc'[c] = "idle"
            /\ tasks' = tasks )
          => /\ session'[c] = NoSession
             /\ outcome'[c].call = "release"
             /\ \A w \in Workers, b \in Bids :
                  (w = session[c].worker /\ b = session[c].browser_id)
                    => Stranded(w, b)'
     /\ \A w \in Workers, b \in Bids :
          Stranded(w, b) => Stranded(w, b)']_vars

\* release() of the TypeScript client has returned, the client holds no
\* lease and no call runs, every task list is empty, and a browser is
\* stranded in a busy collection.
C33_Witness ==
  \E c \in fleet \cap TSClients :
    /\ pc[c] = "idle" /\ outcome[c].call = "release"
    /\ session[c] = NoSession
    /\ \A w \in Workers : tasks[w] = <<>>
    /\ \E w \in Workers, b \in Bids : Stranded(w, b)

\* the step takes b out of the free collection of (w, t) and nothing else
\* out of or into a free collection
TakesFree(w, t, b) ==
  /\ b \in free[w][t]
  /\ free' = [free EXCEPT ![w][t] = @ \ {b}]

\* the step puts b into the busy collection of (w, t), which did not hold
\* it, and nothing else into or out of a busy collection
PutsBusy(w, t, b) ==
  /\ b \notin busy[w][t]
  /\ busy' = [busy EXCEPT ![w][t] = @ \cup {b}]

WorkerReleases ==
  \E w \in Workers :
    /\ tasks[w] # <<>>
    /\ tasks'[w] = Tail(tasks[w])
    /\ Head(tasks[w]).action = "release_browser"

\* C35: no client operation inserts an id into a free collection, removes
\* an id from a busy collection or changes the registry.  The registry is
\* never changed; a free collection grows and a busy collection shrinks
\* only in the step of the worker that executes release_browser; every
\* other change of a collection is made by a client that runs acquire().
C35_ClientOnlyClaims ==
  [][/\ workers' = workers
     /\ WorkerReleases
          \/ \A w \in Workers, t \in Types :
               /\ free'[w][t] \subseteq free[w][t]
               /\ busy[w][t] \subseteq busy'[w][t]
     /\ (<<free, busy>>' # <<free, busy>> /\ ~WorkerReleases)
          => \E c \in fleet :
               /\ op'[c] = "acquire" \/ outcome'[c].call = "acquire"
               /\ <<pc[c], session[c], frame[c]>>
                    # <<pc'[c], session'[c], frame'[c]>>]_vars

\* release() has returned the worker's ok reply to release_browser, the
\* client holds no lease, and the pool is as it began: the worker, not the
\* client, has put the browser back.
C35_Witness ==
  \E c \in fleet :
    /\ pc[c] = "idle" /\ outcome[c] = Returned("release", "ok", "none")
    /\ session[c] = NoSession
    /\ free = InitFree
    /\ \A w \in Workers, t \in Types : busy[w][t] = {}

\* C36: TypeScript client.  When acquire() raises, the instance holds no
\* new lease and no browser is left in a busy collection on behalf of the
\* call: an acquire() that throws at once changes neither the session nor a
\* collection, and one that throws while sending its get_title ends without
\* the lease it had assigned, the browser of that lease not busy.
C36_NoLeaseAfterRaise ==
  [][\A c \in fleet \cap TSClients :
       /\ ( /\ pc[c] = "idle" /\ pc'[c] = "idle"
            /\ outcome'[c] # outcome[c]
            /\ outcome'[c].call = "acquire" /\ outcome'[c].kind = "throw" )
          => /\ session'[c] = session[c]
             /\ free' = free /\ busy' = busy
       /\ ( /\ op[c] = "acquire" /\ pc[c] # "idle" /\ pc'[c] = "idle"
            /\ outcome'[c].kind = "throw" )
          => /\ session'[c] # session[c]
             /\ session[c].browser_id
                  \notin busy'[session[c].worker][session[c].browser_type]]_vars

\* C37: TypeScript client.  An acquire() that fails leaves the local state
\* of the instance as it was: the lease it held and the initialized flag
\* are those of before the call.
C37_FailedAcquireKeepsLocalState ==
  [][\A c \in fleet \cap TSClients :
       ( /\ pc[c] = "idle" /\ pc'[c] = "idle"
         /\ outcome'[c].call = "acquire" /\ outcome'[c].kind = "throw"
         /\ outcome'[c] # outcome[c] \/ init_sent'[c] # init_sent[c] )
       => /\ session'[c] = session[c]
          /\ init_sent'[c] = init_sent[c]]_vars

\* C39: no reply is left behind in the broker.  Once every call has
\* returned and the worker has answered every request it took (no task list
\* holds an envelope), every reply slot is empty.
C39_NoReplyLeftBehind ==
  ( /\ \A c \in fleet : pc[c] = "idle"
    /\ \A w \in Workers : tasks[w] = <<>> )
  => \A k \in TaskIds : results[k] = <<>>

\* C40: TypeScript client.  acquire() called with profile, video or record
\* returns {status: "ok"} only if the worker replied to its get_title: the
\* wait of the get_title that ends in the ok return ends on a reply of
\* status "ok", not on the timeout nor on an error reply.
C40_OkOnlyAfterInitReply ==
  [][\A c \in fleet \cap TSClients :
       ( /\ op[c] = "acquire" /\ pc[c] = "blpop" /\ pc'[c] = "idle"
         /\ outcome'[c] = AcquireOk )
       => /\ results[pending[c].result_key] # <<>>
          /\ Head(results[pending[c].result_key]).status = "ok"
          /\ results' # results]_vars

====
